---- MODULE Spec2Model ----
(***************************************************************************)
(* Verification model of the mdedit document synchronization engine:       *)
(* the comment embedding codec (utils/markdown.ts), the markdown <-> rich   *)
(* document converter, the editor/comment-store synchronization (App.tsx,  *)
(* WysiwygEditor.tsx, MarkdownEditor.tsx, CommentMark, commentStore.ts)     *)
(* and the diagram renderer (extensions/MermaidBlock.tsx).                  *)
(*                                                                         *)
(* Text is modelled as a sequence of tokens.  A token is a one-element     *)
(* tuple naming a character class or a literal of the file format, or a    *)
(* two-element tuple carrying a payload.                                   *)
(***************************************************************************)
EXTENDS Integers, Sequences, FiniteSets, TLC

VARIABLES
  codecPc,        \* "idle" | "embedded" | "roundtrip" | "opened" | "resaved"
  codecBody,      \* the body passed to embedCommentsInMarkdown
  codecComments,  \* the comment list passed to embedCommentsInMarkdown
  codecText,      \* the text produced by embed, or the file text that was opened
  codecResult,    \* the value returned by extractCommentsFromMarkdown
  codecSaved      \* embedCommentsInMarkdown applied to codecResult: what it
                  \* returned, or that it threw

codecVars == <<codecPc, codecBody, codecComments, codecText, codecResult, codecSaved>>

VARIABLES
  convPc,         \* "idle" | "markdown" | "html"
  convHtml,       \* the HTML handed to htmlToMarkdown
  convMarkdown,   \* the markdown htmlToMarkdown returned
  convOut         \* the HTML markdownToHtml returned for convMarkdown

convVars == <<convPc, convHtml, convMarkdown, convOut>>

VARIABLES
  doc,              \* the rich document: its characters, each with its comment mark
  mdText,           \* the text held by the raw markdown editor (CodeMirror)
  markdown,         \* App state `markdown`
  comments,         \* commentStore.comments: id -> Comment
  isUpdatingRef,    \* App isUpdatingRef.current
  mdIsUpdatingRef,  \* MarkdownEditor isUpdatingRef.current
  isDirty,          \* fileStore.isDirty
  usedIds,          \* the comment ids that exist anywhere (uuid values are never reused)
  lastOp            \* the operation that ran last and the propagation bodies it ran

syncVars == <<doc, mdText, markdown, isUpdatingRef, mdIsUpdatingRef, isDirty>>
editorVars == <<syncVars, comments, usedIds, lastOp>>

VARIABLES
  sanPc,          \* "idle" | "done"
  sanIn,          \* the markup handed to sanitizeSvg
  sanOut          \* the markup sanitizeSvg returned

sanVars == <<sanPc, sanIn, sanOut>>

VARIABLES
  requests,       \* the calls of queueMermaidRender so far, in call order
  renderQueue,    \* the promise held by renderQueue: 0 is Promise.resolve(),
                  \* k > 0 the promise of the callback of request k
  mermaidCounter, \* mermaidCounter
  started,        \* the requests whose engine call started, in start order
  view            \* per diagram block: what MermaidComponent shows

renderVars == <<requests, renderQueue, mermaidCounter, started, view>>

VARIABLES
  prePc,          \* "idle" | "opened" | "saved"
  preIn,          \* the blocks of the markdown file that was opened
  preHtml,        \* the HTML markdownToHtml returned for it
  preBack         \* the markdown htmlToMarkdown returned for preHtml

preVars == <<prePc, preIn, preHtml, preBack>>

VARIABLES
  blkMounted,     \* the MermaidComponent of one diagram block exists
  blkCode,        \* node.attrs.code
  blkEditing,     \* state isEditing
  blkSvg,         \* state svg
  blkError,       \* state error
  blkRenders      \* the calls of queueMermaidRender by the render effect of
                  \* the block, each with the cancelled flag of its effect run

blkVars == <<blkMounted, blkCode, blkEditing, blkSvg, blkError, blkRenders>>

VARIABLES
  recentPeople,   \* the module variable recentPeople of the mention input
  mruClock,       \* the number of addRecentPerson calls so far
  mruAddedAt,     \* for every person id, the call that added it last (0: never)
  mruReAdds       \* the calls so far that added a person already in the cache

mruVars == <<recentPeople, mruClock, mruAddedAt, mruReAdds>>

VARIABLES
  menValue,         \* the comment text: prop value of the mention input
  mentionActive,    \* state mentionActive (isOpen in the earlier picker)
  searchQuery,      \* state searchQuery
  mentionStartPos,  \* state mentionStartPos
  mentions,         \* the mention list of the message being written
  picker,           \* the pending people.selectPeople call and what its
                    \* continuation captured
  dirTimer,         \* the query of the pending debounce timer
  dirInflight,      \* the queries of the searchUsers calls not yet settled
  dirResults,       \* state results of the earlier picker
  menLast           \* the operation that ran last and the state it found

menVars == <<menValue, mentionActive, searchQuery, mentionStartPos, mentions,
             picker, dirTimer, dirInflight, dirResults, menLast>>

VARIABLES
  storeComments,  \* commentStore.comments, with the fields the thread and
                  \* task operations read and write
  currentUser,    \* commentStore.currentUser
  storeLast       \* the store operation that ran last, with its arguments

stVars == <<storeComments, currentUser, storeLast>>

VARIABLES
  results,        \* state results of the mention input: the known candidates
  selectedIndex   \* state selectedIndex: the highlighted row of the dropdown

dropVars == <<results, selectedIndex>>

VARIABLES
  paraText,          \* the text of the paragraph the cursor is in
  selection,         \* editor.state.selection: from and to
  lastSelectionRef,  \* lastSelectionRef.current of the rich editor
  anchored           \* the comments add-comment has created, each with the
                     \* range its anchor mark was put on

wordVars == <<paraText, selection, lastSelectionRef, anchored>>

VARIABLES
  sessPc,         \* "none" | "open" | "reopened": what the App last did with a file
  sessMarkdown,   \* App state markdown: the body of the open document
  sessComments,   \* Object.values(comments) of the comment store
  sessSaved       \* the text the last save wrote and the store at that time

sessVars == <<sessPc, sessMarkdown, sessComments, sessSaved>>

VARIABLES
  stampComments,  \* commentStore.comments, each comment with its updatedAt
  stampReturn     \* what the last store operation returned

stampVars == <<stampComments, stampReturn>>

VARIABLES
  markAttrs,      \* comment id -> the resolved attribute of the marks that carry it
  markComments,   \* comment id -> Comment.resolved of the comment store
  markLast        \* the operation that ran last

markVars == <<markAttrs, markComments, markLast>>

VARIABLES
  svMarkdown,     \* App state markdown: the body
  svComments,     \* Object.values(comments) of the comment store
  svDirty,        \* fileStore.isDirty
  svFile,         \* the text last read from or written to the open file
  svPending       \* the content of a save that awaits its write

svVars == <<svMarkdown, svComments, svDirty, svFile, svPending>>

vars == <<codecVars, convVars, editorVars, sanVars, renderVars, preVars, blkVars, mruVars, menVars, stVars, dropVars, wordVars, sessVars, stampVars, markVars, svVars>>

\* what the operations of one component leave alone
notCodec == <<convVars, editorVars, sanVars, renderVars, preVars, blkVars, mruVars, menVars, stVars, dropVars, wordVars, sessVars, stampVars, markVars, svVars>>
notConv == <<codecVars, editorVars, sanVars, renderVars, preVars, blkVars, mruVars, menVars, stVars, dropVars, wordVars, sessVars, stampVars, markVars, svVars>>
notEditor == <<codecVars, convVars, sanVars, renderVars, preVars, blkVars, mruVars, menVars, stVars, dropVars, wordVars, sessVars, stampVars, markVars, svVars>>
notSan == <<codecVars, convVars, editorVars, renderVars, preVars, blkVars, mruVars, menVars, stVars, dropVars, wordVars, sessVars, stampVars, markVars, svVars>>
notRender == <<codecVars, convVars, editorVars, sanVars, preVars, blkVars, mruVars, menVars, stVars, dropVars, wordVars, sessVars, stampVars, markVars, svVars>>
notPre == <<codecVars, convVars, editorVars, sanVars, renderVars, blkVars, mruVars, menVars, stVars, dropVars, wordVars, sessVars, stampVars, markVars, svVars>>
notBlk == <<codecVars, convVars, editorVars, sanVars, renderVars, preVars, mruVars, menVars, stVars, dropVars, wordVars, sessVars, stampVars, markVars, svVars>>
notMru == <<codecVars, convVars, editorVars, sanVars, renderVars, preVars, blkVars, menVars, stVars, dropVars, wordVars, sessVars, stampVars, markVars, svVars>>
notMen == <<codecVars, convVars, editorVars, sanVars, renderVars, preVars, blkVars, mruVars, stVars, dropVars, wordVars, sessVars, stampVars, markVars, svVars>>
notMenMru == <<codecVars, convVars, editorVars, sanVars, renderVars, preVars, blkVars, stVars, dropVars, wordVars, sessVars, stampVars, markVars, svVars>>
notSt == <<codecVars, convVars, editorVars, sanVars, renderVars, preVars, blkVars, mruVars, menVars, dropVars, wordVars, sessVars, stampVars, markVars, svVars>>
notMenMruDrop == <<codecVars, convVars, editorVars, sanVars, renderVars, preVars, blkVars, stVars, wordVars, sessVars, stampVars, markVars, svVars>>
notDrop == <<codecVars, convVars, editorVars, sanVars, renderVars, preVars, blkVars, mruVars, menVars, stVars, wordVars, sessVars, stampVars, markVars, svVars>>
notWord == <<codecVars, convVars, editorVars, sanVars, renderVars, preVars, blkVars, mruVars, menVars, stVars, dropVars, sessVars, stampVars, markVars, svVars>>
notSess == <<codecVars, convVars, editorVars, sanVars, renderVars, preVars, blkVars, mruVars, menVars, stVars, dropVars, wordVars, stampVars, markVars, svVars>>
notStamp == <<codecVars, convVars, editorVars, sanVars, renderVars, preVars, blkVars, mruVars, menVars, stVars, dropVars, wordVars, sessVars, markVars, svVars>>
notMark == <<codecVars, convVars, editorVars, sanVars, renderVars, preVars, blkVars, mruVars, menVars, stVars, dropVars, wordVars, sessVars, stampVars, svVars>>
notSv == <<codecVars, convVars, editorVars, sanVars, renderVars, preVars, blkVars, mruVars, menVars, stVars, dropVars, wordVars, sessVars, stampVars, markVars>>

-----------------------------------------------------------------------------
(* Bounds of the model *)

MaxBodyLen == 3      \* longest body handed to embedCommentsInMarkdown
MaxComments == 1     \* longest comment list handed to embedCommentsInMarkdown
MaxPad == 1          \* longest text before / after a data block in an opened file
MaxWidth == 2        \* most sibling nodes in an HTML input of the converter
MaxNest == 2         \* deepest nesting of comment spans in an HTML input
MaxDocLen == 2       \* longest rich document a user edit may produce
MaxMdLen == 4        \* longest raw markdown text a user edit may produce
MaxRequests == 3     \* most calls of queueMermaidRender in a run
MaxKids == 2         \* most children of the <svg> element in a sanitizer input
MaxSrcLen == 2       \* characters of a diagram source
MaxBlocks == 3       \* blocks of a markdown file handed to markdownToHtml
MaxRenders == 3      \* render requests of one diagram block
MaxExtra == 2        \* people beyond the capacity of the recency cache
MaxReAdds == 1       \* additions of a person the recency cache already holds
MaxBufLen == 4       \* longest comment text a user types
MaxMentions == 1     \* most mentions of one message
MaxReplies == 1      \* most replies of one comment
MaxTime == 2         \* latest time new Date() returns
MaxTyped == 3        \* longest text typed while the dropdown is watched
MaxParaLen == 3      \* longest paragraph of the add-comment model
MaxAnchored == 1     \* most comments add-comment creates

-----------------------------------------------------------------------------
(* Tokens of markdown text *)

CH == <<"a">>                  \* an ordinary visible character
SP == <<" ">>                  \* a space
NL == <<"nl">>                 \* a line feed
DATA_START == <<"DATA_START">> \* the literal <!--MDEDIT_COMMENTS_DATA
DATA_END == <<"DATA_END">>     \* the literal MDEDIT_COMMENTS_DATA-->

IsSpace(tok) == tok = SP \/ tok = NL

RECURSIVE TrimStart(_)
TrimStart(s) ==
  IF Len(s) > 0 /\ IsSpace(Head(s)) THEN TrimStart(Tail(s)) ELSE s

RECURSIVE TrimEnd(_)
TrimEnd(s) ==
  IF Len(s) > 0 /\ IsSpace(s[Len(s)]) THEN TrimEnd(SubSeq(s, 1, Len(s) - 1)) ELSE s

\* String.prototype.trim
Trim(s) == TrimEnd(TrimStart(s))

Min(S) == CHOOSE x \in S : \A y \in S : x <= y

-----------------------------------------------------------------------------
(* Dates and JSON values *)

NullV == <<"null">>
DateOf(ms) == <<"date", ms>>       \* a Date object holding a valid time value
IsoOf(ms) == <<"iso", ms>>         \* the ISO-8601 string of that time value

\* Date.prototype.toISOString
toISOString(d) == IsoOf(d[2])

Undefined == <<"undefined">>       \* the value of a key the object lacks
BadDateString == <<"not a date">>  \* a string Date cannot parse
InvalidDate == <<"Invalid Date">>  \* a Date object whose time value is NaN

\* new Date(v): an ISO string gives its time value, null gives the epoch,
\* undefined and an unparseable string give an Invalid Date; never throws
NewDate(s) ==
  IF s[1] = "iso" THEN DateOf(s[2])
  ELSE IF s = NullV THEN DateOf(0)
  ELSE InvalidDate

\* obj[k]
Get(obj, k) == IF k \in DOMAIN obj THEN obj[k] ELSE Undefined

\* { ...obj, ...over }
Spread(obj, over) ==
  [k \in DOMAIN obj \cup DOMAIN over |->
     IF k \in DOMAIN over THEN over[k] ELSE obj[k]]

\* Date.prototype.toISOString throws a RangeError on an Invalid Date
ToIsoThrows(d) == d = InvalidDate

\* comment.resolvedAt?.toISOString() || null
OptToIso(d) == IF d = NullV THEN NullV ELSE toISOString(d)

\* comment.resolvedAt ? new Date(comment.resolvedAt) : null
OptNewDate(s) == IF s \in {NullV, Undefined} THEN NullV ELSE NewDate(s)

MapSeq(s, Op(_)) == [i \in 1..Len(s) |-> Op(s[i])]

\* markdown.ts 244-247: replies mapped for serialization
EncodeReply(r) == [r EXCEPT !.createdAt = toISOString(r.createdAt)]

\* markdown.ts 238-248: one comment prepared for serialization
EncodeComment(c) ==
  [c EXCEPT !.createdAt = toISOString(c.createdAt),
            !.updatedAt = toISOString(c.updatedAt),
            !.resolvedAt = OptToIso(c.resolvedAt),
            !.taskDueDate = OptToIso(c.taskDueDate),
            !.replies = MapSeq(c.replies, EncodeReply)]

\* markdown.ts 211-214
DecodeReply(r) == Spread(r, [createdAt |-> NewDate(Get(r, "createdAt"))])

\* markdown.ts 205-215: comment.replies.map throws a TypeError when the
\* element has no replies array; the caller's catch handles it.
CanDecodeComment(c) == "replies" \in DOMAIN c

DecodeComment(c) ==
  Spread(c, [createdAt |-> NewDate(Get(c, "createdAt")),
             updatedAt |-> NewDate(Get(c, "updatedAt")),
             resolvedAt |-> OptNewDate(Get(c, "resolvedAt")),
             taskDueDate |-> OptNewDate(Get(c, "taskDueDate")),
             replies |-> MapSeq(c.replies, DecodeReply)])

\* embedCommentsInMarkdown 238-248 throws: toISOString on an Invalid Date
EncodeThrows(c) ==
  \/ ToIsoThrows(c.createdAt)
  \/ ToIsoThrows(c.updatedAt)
  \/ ToIsoThrows(c.resolvedAt)
  \/ ToIsoThrows(c.taskDueDate)
  \/ \E k \in 1..Len(c.replies) : ToIsoThrows(c.replies[k].createdAt)

\* A JSON document is one token: JSON.stringify escapes every line feed
\* inside a string, so the text it produces never contains the line
\* "MDEDIT_COMMENTS_DATA-->" and the block regex cannot end inside it.
JsonArray(items) == [kind |-> "array", items |-> items]
JsonObject == [kind |-> "object"]
JsonTok(v) == <<"json", v>>
IsJsonTok(tok) == Len(tok) = 2 /\ tok[1] = "json"

\* JSON.stringify(commentsData, null, 2)
JsonStringify(items) == JsonTok(JsonArray(items))

\* JSON.parse: white space around the single value is allowed, anything
\* else (empty text, ordinary characters) is a SyntaxError.
JsonParse(text) ==
  LET t == Trim(text) IN
  IF Len(t) = 1 /\ IsJsonTok(t[1])
  THEN [ok |-> TRUE, value |-> t[1][2]]
  ELSE [ok |-> FALSE]

\* the keys of a stored comment whose values are objects, and arrays of
\* objects; every other value is a string, a number, a boolean or null
ObjectKeys == {"author", "extra"}
ArrayKeys == {"replies", "mentions"}

\* a reviver that drops __proto__ only
IsProtoKey(key) == key = "__proto__"

\* the test of the reviver: key === '__proto__' || key === 'constructor'
\* || key === 'prototype'
IsDroppedKey(key) == key \in {"__proto__", "constructor", "prototype"}

RECURSIVE Revive(_)
\* JSON.parse(text, reviver) on an object: the reviver is called for every
\* key of every object, innermost first; a key for which it returns
\* undefined is deleted from its holder
Revive(obj) ==
  [k \in {x \in DOMAIN obj : ~IsDroppedKey(x)} |->
     IF k \in ObjectKeys THEN Revive(obj[k])
     ELSE IF k \in ArrayKeys THEN [i \in 1..Len(obj[k]) |-> Revive(obj[k][i])]
     ELSE obj[k]]

\* JSON.parse(commentsJson, reviver)
JsonParseRevived(text) ==
  LET parsed == JsonParse(text) IN
  IF ~parsed.ok THEN parsed
  ELSE IF parsed.value.kind = "array"
  THEN [ok |-> TRUE,
        value |-> JsonArray([i \in 1..Len(parsed.value.items) |->
                               Revive(parsed.value.items[i])])]
  ELSE parsed

-----------------------------------------------------------------------------
(* The comment embedding codec, utils/markdown.ts 178-253 *)

\* The end positions j of "\nMDEDIT_COMMENTS_DATA-->" for a block opened at i
BlockEnds(t, i) ==
  {j \in (i + 2)..(Len(t) - 1) : t[j] = NL /\ t[j + 1] = DATA_END}

\* The start positions of /<!--MDEDIT_COMMENTS_DATA\n([\s\S]*?)\nMDEDIT_COMMENTS_DATA-->/
BlockStarts(t) ==
  {i \in 1..(Len(t) - 1) :
     t[i] = DATA_START /\ t[i + 1] = NL /\ BlockEnds(t, i) # {}}

\* markdown.match(...): the leftmost match, its lazy group ending at the
\* first closing line
MatchBlock(t) ==
  IF BlockStarts(t) = {} THEN [found |-> FALSE]
  ELSE LET i == Min(BlockStarts(t))
           j == Min(BlockEnds(t, i))
       IN [found |-> TRUE, from |-> i, to |-> j + 1,
           group |-> SubSeq(t, i + 2, j - 1)]

\* true when t[from..Len(t)] consists of line feeds only
OnlyNewlines(t, from) == \A k \in from..Len(t) : t[k] = NL

\* the closing lines that let /...\nMDEDIT_COMMENTS_DATA-->\n*$/ reach the end
TailEnds(t, i) == {j \in BlockEnds(t, i) : OnlyNewlines(t, j + 2)}

TailStarts(t) ==
  {i \in 1..(Len(t) - 1) :
     t[i] = DATA_START /\ t[i + 1] = NL /\ TailEnds(t, i) # {}}

RECURSIVE NewlineRunStart(_, _)
\* the first position of the run of line feeds that ends just before i
NewlineRunStart(t, i) ==
  IF i > 1 /\ t[i - 1] = NL THEN NewlineRunStart(t, i - 1) ELSE i

\* markdown.replace(/\n*<!--MDEDIT_COMMENTS_DATA\n[\s\S]*?\nMDEDIT_COMMENTS_DATA-->\n*$/, '')
StripTrailingBlock(t) ==
  IF TailStarts(t) = {} THEN t
  ELSE SubSeq(t, 1, NewlineRunStart(t, Min(TailStarts(t))) - 1)

extractCommentsFromMarkdown(text) ==
  LET m == MatchBlock(text)
      unchanged == [markdown |-> text, comments |-> <<>>]
  IN
  IF ~m.found THEN unchanged
  ELSE LET parsed == JsonParseRevived(m.group) IN
       IF ~parsed.ok THEN unchanged                      \* catch (error)
       ELSE IF parsed.value.kind # "array" THEN unchanged \* !Array.isArray
       ELSE LET items == parsed.value.items IN
            IF \E k \in 1..Len(items) : ~CanDecodeComment(items[k])
            THEN unchanged                               \* catch (error)
            ELSE [markdown |-> Trim(StripTrailingBlock(text)),
                  comments |-> MapSeq(items, DecodeComment)]

\* a test that never takes the early return
NeverEmpty(list) == FALSE

\* !comments || comments.length === 0
NothingToEmbed(list) == Len(list) = 0

embedCommentsInMarkdown(body, list) ==
  IF NothingToEmbed(list) THEN body
  ELSE Trim(body)
       \o <<NL, NL, DATA_START, NL>>
       \o <<JsonStringify(MapSeq(list, EncodeComment))>>
       \o <<NL, DATA_END>>

\* a call of embedCommentsInMarkdown: the string it returns, or the
\* RangeError of toISOString leaving it
EmbedCall(body, list) ==
  IF \E k \in 1..Len(list) : EncodeThrows(list[k])
  THEN [threw |-> TRUE, text |-> <<>>]
  ELSE [threw |-> FALSE, text |-> embedCommentsInMarkdown(body, list)]

-----------------------------------------------------------------------------
(* Inputs of the codec *)

RECURSIVE SeqsUpTo(_, _)
SeqsUpTo(S, n) ==
  IF n = 0 THEN {<<>>}
  ELSE LET shorter == SeqsUpTo(S, n - 1) IN
       shorter \cup {Append(s, x) : s \in {q \in shorter : Len(q) = n - 1}, x \in S}

BodyTokens == {CH, SP, NL, DATA_START, DATA_END}
Bodies == SeqsUpTo(BodyTokens, MaxBodyLen)

Reply1 == [id |-> "r1", text |-> "ok", createdAt |-> DateOf(2)]

BaseComment ==
  [id |-> "c1", text |-> "fix this", quotedText |-> "world",
   createdAt |-> DateOf(1), updatedAt |-> DateOf(1), resolved |-> FALSE,
   resolvedAt |-> NullV, taskDueDate |-> NullV, replies |-> <<>>]

SampleComments ==
  {BaseComment,
   [BaseComment EXCEPT !.id = "c2", !.updatedAt = DateOf(3), !.resolved = TRUE,
                       !.resolvedAt = DateOf(3)],
   [BaseComment EXCEPT !.id = "c3", !.taskDueDate = DateOf(0),
                       !.replies = <<Reply1>>]}

CommentLists == SeqsUpTo(SampleComments, MaxComments)

\* stored comments (JSON objects) a file written by another tool can hold:
\* a date that is no date string, a missing date, a reply with a bad date
BadDateComment == [EncodeComment(BaseComment) EXCEPT !.createdAt = BadDateString]

NoDateComment ==
  [id |-> "c1", text |-> "fix this", quotedText |-> "world",
   createdAt |-> IsoOf(1), resolved |-> FALSE,
   resolvedAt |-> NullV, taskDueDate |-> NullV, replies |-> <<>>]

\* stored comments that carry reserved keys: on the comment, in its author
\* object, in an object nested in the author, in a reply
Injected == [isAdmin |-> TRUE]

Stored == EncodeComment(BaseComment)

PollutedComments ==
  {("__proto__" :> Injected) @@ Stored,
   ("author" :> [name |-> "eve", constructor |-> Injected]) @@ Stored,
   ("author" :> [name |-> "eve",
                 extra |-> ("__proto__" :> Injected) @@ [team |-> "x"]]) @@ Stored,
   [Stored EXCEPT !.replies =
      <<[id |-> "r1", text |-> "ok", createdAt |-> IsoOf(2),
         prototype |-> Injected]>>],
   ("author" :> [name |-> "bob"]) @@ Stored}

BadReplyComment ==
  [EncodeComment(BaseComment) EXCEPT
     !.replies = <<[id |-> "r1", text |-> "ok", createdAt |-> BadDateString]>>]

Pads == SeqsUpTo({CH, NL}, MaxPad)

\* what a file can hold between the opening and the closing line of a block
Payloads ==
  {<<JsonStringify(MapSeq(cs, EncodeComment))>> : cs \in CommentLists}
  \cup {<<JsonTok(JsonArray(<<c>>))>> : c \in PollutedComments}
  \cup {<<JsonTok(JsonObject)>>,                               \* valid JSON, no array
        <<JsonTok(JsonArray(<<[id |-> "c1"]>>))>>,             \* element without fields
        <<JsonTok(JsonArray(<<BadDateComment>>))>>,
        <<JsonTok(JsonArray(<<NoDateComment>>))>>,
        <<JsonTok(JsonArray(<<BadReplyComment>>))>>,
        <<CH>>, <<>>}                                          \* no JSON at all

BlockOf(payload) == <<DATA_START, NL>> \o payload \o <<NL, DATA_END>>

FileTexts ==
  {pre \o BlockOf(p) \o suf : pre \in Pads, p \in Payloads, suf \in Pads}
  \cup Pads
  \cup Bodies

-----------------------------------------------------------------------------
(* Codec operations *)

CodecEmbed(b, c) ==
  /\ codecPc = "idle"
  /\ codecBody' = b
  /\ codecComments' = c
  /\ codecText' = embedCommentsInMarkdown(b, c)
  /\ codecPc' = "embedded"
  /\ UNCHANGED <<codecResult, codecSaved, notCodec>>

CodecExtract ==
  /\ codecPc = "embedded"
  /\ codecResult' = extractCommentsFromMarkdown(codecText)
  /\ codecPc' = "roundtrip"
  /\ UNCHANGED <<codecBody, codecComments, codecText, codecSaved, notCodec>>

CodecOpen(t) ==
  /\ codecPc = "idle"
  /\ codecText' = t
  /\ codecResult' = extractCommentsFromMarkdown(t)
  /\ codecPc' = "opened"
  /\ UNCHANGED <<codecBody, codecComments, codecSaved, notCodec>>

\* the opened file is saved again: embedCommentsInMarkdown on the body and
\* the comment list extractCommentsFromMarkdown returned
CodecSave ==
  /\ codecPc = "opened"
  /\ codecSaved' = EmbedCall(codecResult.markdown, codecResult.comments)
  /\ codecPc' = "resaved"
  /\ UNCHANGED <<codecBody, codecComments, codecText, codecResult, notCodec>>

InitCodec ==
  /\ codecPc = "idle"
  /\ codecBody = <<>>
  /\ codecComments = <<>>
  /\ codecText = <<>>
  /\ codecResult = [markdown |-> <<>>, comments |-> <<>>]
  /\ codecSaved = [threw |-> FALSE, text |-> <<>>]

NextCodec ==
  \/ codecPc = "idle" /\ \E b \in Bodies, c \in CommentLists : CodecEmbed(b, c)
  \/ CodecExtract
  \/ codecPc = "idle" /\ \E t \in FileTexts : CodecOpen(t)
  \/ CodecSave


-----------------------------------------------------------------------------
(* Text with fences, diagram sources and task items, and the escaping of
   attribute values, utils/markdown.ts 43-68 and 81-89 *)

QUOT == <<"\"">>
AMP == <<"&">>
LT == <<"<">>
GT == <<">">>
CR == <<"cr">>
MERMAID == <<"mermaid">>            \* the word mermaid after a fence
TICKS(n) == <<"ticks", n>>          \* a run of n backticks
TASK == <<"- [ ] ">>                \* the prefix of an unchecked task item
DIV(raw) == <<"mermaid_div", raw>>  \* <div data-type="mermaid" data-code="raw">
LI(content) == <<"taskItem", content>> \* <li data-type="taskItem" ...>content</li>

IsTicks(tok) == Len(tok) = 2 /\ tok[1] = "ticks"
IsDiv(tok) == Len(tok) = 2 /\ tok[1] = "mermaid_div"
IsLi(tok) == Len(tok) = 2 /\ tok[1] = "taskItem"

\* a mermaid fence around a source, as the mermaidBlock rule writes it
Fence(code) == <<TICKS(3), MERMAID, NL>> \o code \o <<NL, TICKS(3)>>

\* the characters of the entities escapeHtmlAttr writes
Entity(name) == <<AMP>> \o name \o <<<<";">>>>
EntAmp == Entity(<<<<"a">>, <<"m">>, <<"p">>>>)
EntQuot == Entity(<<<<"q">>, <<"u">>, <<"o">>, <<"t">>>>)
EntLt == Entity(<<<<"l">>, <<"t">>>>)
EntGt == Entity(<<<<"g">>, <<"t">>>>)
EntNl == Entity(<<<<"#">>, <<"1">>, <<"0">>>>)
EntCr == Entity(<<<<"#">>, <<"1">>, <<"3">>>>)

RECURSIVE ReplaceAll(_, _, _)
\* str.replace(/c/g, with)
ReplaceAll(str, c, with) ==
  IF Len(str) = 0 THEN <<>>
  ELSE (IF Head(str) = c THEN with ELSE <<Head(str)>>)
       \o ReplaceAll(Tail(str), c, with)

\* escapeHtmlAttr: six replacements, & first
escapeHtmlAttr(str) ==
  ReplaceAll(ReplaceAll(ReplaceAll(ReplaceAll(ReplaceAll(ReplaceAll(
    str, AMP, EntAmp), QUOT, EntQuot), LT, EntLt), GT, EntGt), NL, EntNl),
    CR, EntCr)

Entities ==
  {<<EntAmp, AMP>>, <<EntQuot, QUOT>>, <<EntLt, LT>>, <<EntGt, GT>>,
   <<EntNl, NL>>, <<EntCr, CR>>}

StartsWith(str, prefix) ==
  Len(str) >= Len(prefix) /\ SubSeq(str, 1, Len(prefix)) = prefix

RECURSIVE DecodeAttr(_)
\* the value the HTML parser gives an attribute written as raw: character
\* references are replaced by their characters, left to right
DecodeAttr(raw) ==
  IF Len(raw) = 0 THEN <<>>
  ELSE IF \E e \in Entities : StartsWith(raw, e[1])
  THEN LET e == CHOOSE x \in Entities : StartsWith(raw, x[1])
       IN <<e[2]>> \o DecodeAttr(SubSeq(raw, Len(e[1]) + 1, Len(raw)))
  ELSE <<Head(raw)>> \o DecodeAttr(Tail(raw))

-----------------------------------------------------------------------------
(* The markdown <-> HTML converter, utils/markdown.ts 28-40 and 127-173 *)

IdPool == {"c1", "c2"}          \* comment ids (uuid values)

COMMENT_START(id) == <<"COMMENT_START", id>>  \* <!--MDEDIT_COMMENT_START:id-->
COMMENT_END(id) == <<"COMMENT_END", id>>      \* <!--MDEDIT_COMMENT_END:id-->
SpanNode(id, children) == <<"span", id, children>> \* <span data-comment-id=id>

IsStart(tok) == Len(tok) = 2 /\ tok[1] = "COMMENT_START"
IsEnd(tok) == Len(tok) = 2 /\ tok[1] = "COMMENT_END"
IsSpan(node) == Len(node) = 3 /\ node[1] = "span"

RECURSIVE htmlToMarkdown(_)
\* turndownService.turndown with the commentMark rule: a span with
\* data-comment-id becomes its converted content between the two markers;
\* text is kept; an HTML comment node produces nothing.
htmlToMarkdown(html) ==
  IF Len(html) = 0 THEN <<>>
  ELSE LET node == Head(html)
           first == IF IsSpan(node)
                      THEN <<COMMENT_START(node[2])>> \o htmlToMarkdown(node[3])
                           \o <<COMMENT_END(node[2])>>
                    ELSE IF IsDiv(node) THEN Fence(DecodeAttr(node[2]))
                    ELSE IF IsLi(node)
                      THEN <<TASK>> \o Trim(htmlToMarkdown(node[2]))
                    ELSE IF IsStart(node) \/ IsEnd(node) THEN <<>>
                    ELSE <<node>>
       IN first \o htmlToMarkdown(Tail(html))

\* the positions after i of the end marker that carries the id of the
\* start marker at i
EndsFor(t, i) == {j \in (i + 1)..Len(t) : t[j] = COMMENT_END(t[i][2])}

\* the start markers at or after position p that the regex
\* /<!--MDEDIT_COMMENT_START:([^>]+)-->([\s\S]*?)<!--MDEDIT_COMMENT_END:\1-->/g
\* can match
MatchableStarts(t, p) ==
  {i \in p..Len(t) : IsStart(t[i]) /\ EndsFor(t, i) # {}}

RECURSIVE ReplaceCommentMarkers(_, _)
\* String.prototype.replace with the global regex: matches are found left
\* to right, do not overlap, and the replaced content is not scanned again.
ReplaceCommentMarkers(t, p) ==
  IF MatchableStarts(t, p) = {} THEN SubSeq(t, p, Len(t))
  ELSE LET i == Min(MatchableStarts(t, p))
           j == Min(EndsFor(t, i))
       IN SubSeq(t, p, i - 1)
          \o <<SpanNode(t[i][2], SubSeq(t, i + 1, j - 1))>>
          \o ReplaceCommentMarkers(t, j + 1)

-----------------------------------------------------------------------------
(* markdownToHtml steps 1 and 2, utils/markdown.ts 96-160 *)

RECURSIVE WsRunEnd(_, _)
\* the last position of the run of white space that starts at p (p - 1
\* when there is none): what a greedy \s* consumes
WsRunEnd(t, p) ==
  IF p <= Len(t) /\ IsSpace(t[p]) THEN WsRunEnd(t, p + 1) ELSE p - 1

Max(S) == CHOOSE x \in S : \A y \in S : x >= y

\* /```\s*mermaid\s*\n([\s\S]*?)\n?```/gi tried at the backticks at i: three
\* backticks, white space, the word, white space ending in a line feed
\* (the greedy \s* gives back up to the last line feed of the run), the
\* lazy group up to the next three backticks, less one line feed
MermaidAt(t, i) ==
  LET q == WsRunEnd(t, i + 1) + 1
      r == WsRunEnd(t, q + 1)
      nls == {k \in (q + 1)..r : t[k] = NL}
      g == Max(nls) + 1
      closers == {c \in g..Len(t) : IsTicks(t[c]) /\ t[c][2] >= 3}
      c == Min(closers)
  IN IF /\ IsTicks(t[i]) /\ t[i][2] >= 3
        /\ q <= Len(t) /\ t[q] = MERMAID
        /\ nls # {} /\ closers # {}
     THEN [found |-> TRUE, to |-> c,
           code |-> SubSeq(t, g, IF c - 1 >= g /\ t[c - 1] = NL THEN c - 2 ELSE c - 1)]
     ELSE [found |-> FALSE]

\* the backticks of a run of n that a match of three leaves over
Leftover(n) == IF n > 3 THEN <<TICKS(n - 3)>> ELSE <<>>

RECURSIVE FirstMermaid(_, _)
\* the position of the first match at or after p, 0 when there is none
FirstMermaid(t, p) ==
  IF p > Len(t) THEN 0
  ELSE IF MermaidAt(t, p).found THEN p
  ELSE FirstMermaid(t, p + 1)

RECURSIVE MermaidStep(_, _)
\* markdownToHtml step 1 from position p on: every match, left to right,
\* becomes <div data-type="mermaid" data-code="escapeHtmlAttr(code.trim())">
MermaidStep(t, p) ==
  IF FirstMermaid(t, p) = 0 THEN SubSeq(t, p, Len(t))
  ELSE LET i == FirstMermaid(t, p)
           m == MermaidAt(t, i)
       IN SubSeq(t, p, i - 1) \o Leftover(t[i][2])
          \o <<DIV(escapeHtmlAttr(Trim(m.code)))>>
          \o Leftover(t[m.to][2]) \o MermaidStep(t, m.to + 1)

\* the first line feed after position i, 0 when there is none
LineEnd(t, i) ==
  LET nls == {k \in (i + 1)..Len(t) : t[k] = NL}
  IN IF nls = {} THEN 0 ELSE Min(nls)

\* \s*$ after the closing backticks at c: the last position of the match,
\* 0 when other text follows on the line. The greedy \s* runs to the end
\* of the text or gives back up to the last line feed of its run.
FenceTail(t, c) ==
  LET r == WsRunEnd(t, c + 1)
      nls == {k \in (c + 1)..r : t[k] = NL}
  IN IF r = Len(t) THEN r
     ELSE IF nls = {} THEN 0
     ELSE Max(nls) - 1

\* the closing fences for an opening fence at i taken with k backticks:
\* \n\1\s*$ after a body of zero or more characters that itself follows
\* the line feed of the opening line
FenceClosers(t, i, k) ==
  LET e == LineEnd(t, i) IN
  IF e = 0 THEN {}
  ELSE {c \in (e + 2)..Len(t) :
          t[c] = TICKS(k) /\ t[c - 1] = NL /\ FenceTail(t, c) # 0}

\* codeBlockRegex /^(`{3,})([^\n]*)\n([\s\S]*?)\n\1\s*$/gm tried at i: the
\* greedy first group takes as many backticks as still find a closing
\* fence, the lazy body takes the nearest one
CodeBlockAt(t, i) ==
  IF /\ IsTicks(t[i]) /\ t[i][2] >= 3
     /\ (IF i = 1 THEN TRUE ELSE t[i - 1] = NL)
  THEN LET widths == {k \in 3..t[i][2] : FenceClosers(t, i, k) # {}}
       IN IF widths = {} THEN [found |-> FALSE]
          ELSE [found |-> TRUE,
                to |-> FenceTail(t, Min(FenceClosers(t, i, Max(widths))))]
  ELSE [found |-> FALSE]

RECURSIVE FirstCodeBlock(_, _)
\* codeBlockRegex.exec: the position of the first match at or after p, 0
\* when there is none
FirstCodeBlock(t, p) ==
  IF p > Len(t) THEN 0
  ELSE IF CodeBlockAt(t, p).found THEN p
  ELSE FirstCodeBlock(t, p + 1)

RECURSIVE TaskItems(_, _)
\* segment.replace(/^- \[([ xX])\] (.*)$/gm, ...) from position p on: a task
\* prefix at the start of a line and the rest of that line become
\* <li data-type="taskItem">
TaskItems(t, p) ==
  IF p > Len(t) THEN <<>>
  ELSE IF t[p] = TASK /\ (IF p = 1 THEN TRUE ELSE t[p - 1] = NL)
  THEN LET e == LineEnd(t, p)
           last == IF e = 0 THEN Len(t) ELSE e - 1
       IN <<LI(SubSeq(t, p + 1, last))>> \o TaskItems(t, last + 1)
  ELSE <<t[p]>> \o TaskItems(t, p + 1)

\* the transform markdownToHtml hands to transformOutsideCodeBlocks
PreprocessSegment(seg) == TaskItems(ReplaceCommentMarkers(seg, 1), 1)

RECURSIVE transformOutsideCodeBlocks(_, _)
\* the text from position p on: matches of codeBlockRegex are kept as they
\* are, the segments between them are transformed
transformOutsideCodeBlocks(t, p) ==
  IF FirstCodeBlock(t, p) = 0 THEN PreprocessSegment(SubSeq(t, p, Len(t)))
  ELSE LET i == FirstCodeBlock(t, p)
           to == CodeBlockAt(t, i).to
       IN PreprocessSegment(SubSeq(t, p, i - 1)) \o SubSeq(t, i, to)
          \o transformOutsideCodeBlocks(t, to + 1)

\* markdownToHtml: the mermaid step over the whole text, the comment marker
\* and task item rewrite outside fenced code blocks, then marked.parse,
\* which passes block and inline HTML (divs, list items, spans and the HTML
\* comments of unmatched markers) and the text of code blocks through.
markdownToHtml(md) == transformOutsideCodeBlocks(MermaidStep(md, 1), 1)

RECURSIVE Coverage(_, _)
\* for every text character of an HTML fragment, in document order, the
\* set of comment ids of the spans around it
Coverage(html, outer) ==
  IF Len(html) = 0 THEN <<>>
  ELSE LET node == Head(html)
           first == IF IsSpan(node) THEN Coverage(node[3], outer \cup {node[2]})
                    ELSE IF IsStart(node) \/ IsEnd(node) THEN <<>>
                    ELSE <<[ch |-> node, ids |-> outer]>>
       IN first \o Coverage(Tail(html), outer)

RECURSIVE HtmlInputs(_)
\* HTML fragments with comment spans nested at most n deep
HtmlInputs(n) ==
  LET inner == IF n = 0 THEN {} ELSE HtmlInputs(n - 1) \ {<<>>}
      nodes == {CH} \cup {SpanNode(id, ch) : id \in IdPool, ch \in inner}
  IN SeqsUpTo(nodes, MaxWidth)

ConvToMarkdown(h) ==
  /\ convPc = "idle"
  /\ convHtml' = h
  /\ convMarkdown' = htmlToMarkdown(h)
  /\ convPc' = "markdown"
  /\ UNCHANGED <<convOut, notConv>>

ConvToHtml ==
  /\ convPc = "markdown"
  /\ convOut' = markdownToHtml(convMarkdown)
  /\ convPc' = "html"
  /\ UNCHANGED <<convHtml, convMarkdown, notConv>>

InitConv ==
  /\ convPc = "idle"
  /\ convHtml = <<>>
  /\ convMarkdown = <<>>
  /\ convOut = <<>>

NextConv ==
  \/ convPc = "idle" /\ \E h \in HtmlInputs(MaxNest) : ConvToMarkdown(h)
  \/ ConvToHtml

-----------------------------------------------------------------------------
(* Opening and saving a markdown file with code blocks and diagrams *)

TextBlock(body) == [kind |-> "text", ticks |-> 0, body |-> body]
CodeBlock(n, body) == [kind |-> "code", ticks |-> n, body |-> body]
DiagramBlock(src) == [kind |-> "diagram", ticks |-> 3, body |-> src]

\* the markdown text of one block; a code block without a body is an
\* opening fence directly followed by the closing fence
BlockText(b) ==
  IF b.kind = "text" THEN b.body
  ELSE IF b.kind = "diagram" THEN Fence(b.body)
  ELSE <<TICKS(b.ticks), NL>>
       \o (IF b.body = <<>> THEN <<>> ELSE b.body \o <<NL>>)
       \o <<TICKS(b.ticks)>>

RECURSIVE FileText(_)
\* the blocks of a file, separated by blank lines
FileText(blocks) ==
  IF Len(blocks) = 0 THEN <<>>
  ELSE IF Len(blocks) = 1 THEN BlockText(blocks[1])
  ELSE BlockText(blocks[1]) \o <<NL, NL>> \o FileText(Tail(blocks))

Commented == <<COMMENT_START("c1"), CH, COMMENT_END("c1")>>
TextBodies == {<<CH>>, <<TASK, CH>>, Commented}
CodeBodies == {<<>>, <<CH>>, <<TASK, CH>>, Commented}

TextBlocks == {TextBlock(b) : b \in TextBodies}
CodeBlocks ==
  {CodeBlock(n, b) : n \in {3, 4}, b \in CodeBodies}
  \cup {CodeBlock(4, Fence(<<CH>>))}

\* diagram sources: quotes, ampersands, angle brackets, line feeds and
\* blanks, and the text of an entity
Sources ==
  (SeqsUpTo({CH, SP, NL, QUOT, AMP, LT, GT}, MaxSrcLen) \ {<<>>})
  \cup {EntAmp, EntQuot, <<CH, NL, CH>>, <<CH, SP, QUOT, CH, QUOT>>}

\* files of text and code blocks, and files of one diagram between text
CodeFiles == SeqsUpTo(TextBlocks \cup CodeBlocks, MaxBlocks) \ {<<>>}
Siblings == {<<>>} \cup {<<b>> : b \in TextBlocks}
DiagramFiles ==
  {before \o <<DiagramBlock(src)>> \o after :
     before \in Siblings, src \in Sources, after \in Siblings}

\* handleFileOpen with a file of these blocks: the editor receives
\* markdownToHtml of its text
PreOpen(blocks) ==
  /\ prePc = "idle"
  /\ preIn' = blocks
  /\ preHtml' = markdownToHtml(FileText(blocks))
  /\ prePc' = "opened"
  /\ UNCHANGED <<preBack, notPre>>

\* the editor content converted back for the raw editor and the file
PreSave ==
  /\ prePc = "opened"
  /\ preBack' = htmlToMarkdown(preHtml)
  /\ prePc' = "saved"
  /\ UNCHANGED <<preIn, preHtml, notPre>>

InitPre ==
  /\ prePc = "idle"
  /\ preIn = <<>>
  /\ preHtml = <<>>
  /\ preBack = <<>>

NextPre ==
  \/ \E blocks \in CodeFiles \cup DiagramFiles : PreOpen(blocks)
  \/ PreSave

-----------------------------------------------------------------------------
(* The rich document (ProseMirror) and its HTML form *)

NoId == "none"                  \* a character that carries no comment mark

Char(ch, cid) == [ch |-> ch, cid |-> cid]

\* the length of the leading run of characters with the mark of the first
RECURSIVE RunLen(_)
RunLen(d) ==
  IF Len(d) <= 1 THEN Len(d)
  ELSE IF d[2].cid = d[1].cid THEN 1 + RunLen(Tail(d)) ELSE 1

RECURSIVE getHTML(_)
\* editor.getHTML(): adjacent characters with the same mark share one span
\* (CommentMark renderHTML, data-comment-id)
getHTML(d) ==
  IF Len(d) = 0 THEN <<>>
  ELSE LET k == RunLen(d)
           text == [i \in 1..k |-> d[i].ch]
       IN (IF d[1].cid = NoId THEN text ELSE <<SpanNode(d[1].cid, text)>>)
          \o getHTML(SubSeq(d, k + 1, Len(d)))

RECURSIVE ParseHTML(_, _)
\* setContent(html): CommentMark parseHTML on span[data-comment-id]; a text
\* node carries one comment mark, that of the innermost span; HTML comment
\* nodes are dropped
ParseHTML(html, outer) ==
  IF Len(html) = 0 THEN <<>>
  ELSE LET node == Head(html)
           first == IF IsSpan(node) THEN ParseHTML(node[3], node[2])
                    ELSE IF IsStart(node) \/ IsEnd(node) THEN <<>>
                    ELSE <<Char(node, outer)>>
       IN first \o ParseHTML(Tail(html), outer)

\* the comment ids carried by anchor marks of the document
AnchorIds(d) == {d[i].cid : i \in 1..Len(d)} \ {NoId}

\* the comment ids named by markers of a markdown text
MarkerIds(t) == {t[i][2] : i \in {k \in 1..Len(t) : IsStart(t[k]) \/ IsEnd(t[k])}}

\* CommentMark.setComment after setTextSelection({from, to}): setMark puts
\* the new mark on the range; a character holds one mark of this type
SetComment(d, from, to, id) ==
  [i \in 1..Len(d) |-> IF from <= i /\ i <= to THEN Char(d[i].ch, id) ELSE d[i]]

\* CommentMark.removeCommentMark
RemoveCommentMark(d, id) ==
  [i \in 1..Len(d) |-> IF d[i].cid = id THEN Char(d[i].ch, NoId) ELSE d[i]]

\* the user deletes the character at position p
DeleteChar(d, p) == SubSeq(d, 1, p - 1) \o SubSeq(d, p + 1, Len(d))

\* the user types a character after position p; typed text takes the marks
\* of the character before the cursor
TypeChar(d, p) ==
  SubSeq(d, 1, p) \o <<Char(CH, IF p = 0 THEN NoId ELSE d[p].cid)>>
  \o SubSeq(d, p + 1, Len(d))

-----------------------------------------------------------------------------
(* Edit propagation between the two editors, App.tsx and the editor refs *)

\* the fields the change handlers read and write, and what a run did:
\* bodies lists the propagation bodies executed, threw says an exception
\* is unwinding the call stack
Cur ==
  [doc |-> doc, mdText |-> mdText, markdown |-> markdown,
   isUpdatingRef |-> isUpdatingRef, mdIsUpdatingRef |-> mdIsUpdatingRef,
   isDirty |-> isDirty, bodies |-> <<>>, threw |-> FALSE]

Commit(st) ==
  /\ doc' = st.doc
  /\ mdText' = st.mdText
  /\ markdown' = st.markdown
  /\ isUpdatingRef' = st.isUpdatingRef
  /\ mdIsUpdatingRef' = st.mdIsUpdatingRef
  /\ isDirty' = st.isDirty

\* a guard that never blocks
BlockedNever(flag) == FALSE

\* the test of a guard flag: `if (isUpdatingRef.current) return` in the
\* App handlers, `!isUpdatingRef.current` in the CodeMirror updateListener
Blocked(flag) == flag

\* editor.commands.setContent(html, false): the emitUpdate argument
EmitUpdate == FALSE

RECURSIVE handleWysiwygChange(_, _, _)
RECURSIVE handleMarkdownChange(_, _, _)

\* WysiwygEditor onUpdate: editor.getHTML(), htmlToMarkdown, onChange
onUpdate(st, throws) ==
  handleWysiwygChange(st, htmlToMarkdown(getHTML(st.doc)), throws)

\* WysiwygEditor.setMarkdown: markdownToHtml, then setContent(html, false);
\* throws says that the conversion or the content update raises
WysiwygSetMarkdown(st, md, throws) ==
  IF throws THEN [st EXCEPT !.threw = TRUE]
  ELSE LET s1 == [st EXCEPT !.doc = ParseHTML(markdownToHtml(md), NoId)]
       IN IF EmitUpdate THEN onUpdate(s1, throws) ELSE s1

\* MarkdownEditor updateListener, called on a dispatch that changed the text
updateListener(st, throws) ==
  IF ~Blocked(st.mdIsUpdatingRef)
  THEN handleMarkdownChange(st, st.mdText, throws)
  ELSE st

\* MarkdownEditor.setContent; throws says that the dispatch raises
MdSetContent(st, content, throws) ==
  LET s1 == [st EXCEPT !.mdIsUpdatingRef = TRUE] IN
  IF s1.mdText = content THEN [s1 EXCEPT !.mdIsUpdatingRef = FALSE]
  ELSE IF throws THEN [s1 EXCEPT !.threw = TRUE]
  ELSE LET AfterDispatch(s2) ==
             IF s2.threw THEN s2 ELSE [s2 EXCEPT !.mdIsUpdatingRef = FALSE]
       IN AfterDispatch(updateListener([s1 EXCEPT !.mdText = content], throws))

handleWysiwygChange(st, newMarkdown, throws) ==
  IF Blocked(st.isUpdatingRef) THEN st
  ELSE LET s1 == [st EXCEPT !.isUpdatingRef = TRUE,
                            !.markdown = newMarkdown,
                            !.bodies = Append(@, "wysiwygToMarkdown")]
           AfterSetContent(s2) ==
             IF s2.threw THEN s2
             ELSE [s2 EXCEPT !.isDirty = TRUE, !.isUpdatingRef = FALSE]
       IN AfterSetContent(MdSetContent(s1, newMarkdown, throws))

handleMarkdownChange(st, newMarkdown, throws) ==
  IF Blocked(st.isUpdatingRef) THEN st
  ELSE LET s1 == [st EXCEPT !.isUpdatingRef = TRUE,
                            !.markdown = newMarkdown,
                            !.bodies = Append(@, "markdownToWysiwyg")]
           AfterSetMarkdown(s2) ==
             IF s2.threw THEN s2
             ELSE [s2 EXCEPT !.isDirty = TRUE, !.isUpdatingRef = FALSE]
       IN AfterSetMarkdown(WysiwygSetMarkdown(s1, newMarkdown, throws))

Op(kind, blocked, st) ==
  [kind |-> kind, blocked |-> blocked, bodies |-> st.bodies, threw |-> st.threw]

-----------------------------------------------------------------------------
(* The comment store, stores/commentStore.ts *)

\* create(input): a fresh id, empty text, unresolved, no replies
NewComment(id) ==
  [BaseComment EXCEPT !.id = id, !.text = "", !.quotedText = "selection"]

\* delete(id)
StoreDelete(cs, id) == [k \in (DOMAIN cs) \ {id} |-> cs[k]]

\* loadComments(list): a later entry with the same id replaces an earlier one
LoadComments(list) ==
  [id \in {list[i].id : i \in 1..Len(list)} |->
     list[CHOOSE i \in 1..Len(list) :
            list[i].id = id /\ \A j \in (i + 1)..Len(list) : list[j].id # id]]

-----------------------------------------------------------------------------
(* Editor operations *)

\* the user types or deletes in the rich editor
WysiwygUserEdit(newDoc, throws) ==
  LET s1 == onUpdate([Cur EXCEPT !.doc = newDoc], throws) IN
  /\ Commit(s1)
  /\ lastOp' = Op("wysiwyg", isUpdatingRef, s1)
  /\ UNCHANGED <<comments, usedIds, notEditor>>

WysiwygDelete(throws) ==
  \E p \in 1..Len(doc) : WysiwygUserEdit(DeleteChar(doc, p), throws)

WysiwygType(throws) ==
  /\ Len(doc) < MaxDocLen
  /\ \E p \in 0..Len(doc) : WysiwygUserEdit(TypeChar(doc, p), throws)

\* the user types or deletes in the raw markdown editor
MarkdownUserEdit(newText, throws) ==
  LET s1 == updateListener([Cur EXCEPT !.mdText = newText], throws) IN
  /\ Commit(s1)
  /\ lastOp' = Op("markdown", isUpdatingRef \/ mdIsUpdatingRef, s1)
  /\ usedIds' = usedIds \cup MarkerIds(newText)
  /\ UNCHANGED <<comments, notEditor>>

MarkdownDelete(throws) ==
  \E p \in 1..Len(mdText) : MarkdownUserEdit(DeleteChar(mdText, p), throws)

\* the tokens of a comment marker typed by hand
MarkerTokens ==
  {COMMENT_START(id) : id \in IdPool} \cup {COMMENT_END(id) : id \in IdPool}

MarkdownType(tokens, throws) ==
  /\ Len(mdText) < MaxMdLen
  /\ \E p \in 0..Len(mdText), tok \in tokens :
       MarkdownUserEdit(
         SubSeq(mdText, 1, p) \o <<tok>> \o SubSeq(mdText, p + 1, Len(mdText)),
         throws)

\* handleAddComment with a non-empty selection from..to: store.create, then
\* wysiwygRef.addComment(id, from, to), whose transaction fires onUpdate
AddComment ==
  /\ IdPool \ usedIds # {}
  /\ \E from \in 1..Len(doc), to \in 1..Len(doc) :
       /\ from <= to
       /\ LET id == CHOOSE x \in IdPool \ usedIds : TRUE
              s1 == onUpdate([Cur EXCEPT !.doc = SetComment(doc, from, to, id)], FALSE)
          IN /\ Commit(s1)
             /\ comments' = (id :> NewComment(id)) @@ comments
             /\ usedIds' = usedIds \cup {id}
             /\ lastOp' = Op("add", isUpdatingRef, s1)
  /\ UNCHANGED notEditor

\* CommentSidebar delete button: onCommentDelete (wysiwygRef.removeComment),
\* then store.delete; a transaction that changes nothing fires no onUpdate
DeleteComment(id) ==
  /\ id \in DOMAIN comments
  /\ LET d2 == RemoveCommentMark(doc, id)
         s1 == IF d2 # doc THEN onUpdate([Cur EXCEPT !.doc = d2], FALSE) ELSE Cur
     IN /\ Commit(s1)
        /\ lastOp' = Op("delete", isUpdatingRef, s1)
  /\ comments' = StoreDelete(comments, id)
  /\ UNCHANGED <<usedIds, notEditor>>

\* handleFileOpen / handleNewFile: both editors are set from the clean body,
\* the store is replaced, isDirty is cleared
LoadFile(kind, body, list) ==
  LET s1 == WysiwygSetMarkdown([Cur EXCEPT !.markdown = body], body, FALSE)
      s2 == MdSetContent(s1, body, FALSE)
  IN /\ Commit([s2 EXCEPT !.isDirty = FALSE])
     /\ comments' = LoadComments(list)
     /\ usedIds' = usedIds \cup MarkerIds(body) \cup {list[i].id : i \in 1..Len(list)}
     /\ lastOp' = Op(kind, isUpdatingRef, s2)
     /\ UNCHANGED notEditor

FileOpen(content) ==
  LET r == extractCommentsFromMarkdown(content) IN
  LoadFile("open", r.markdown, r.comments)

NewFile == LoadFile("new", <<>>, <<>>)

\* files written by an earlier save of the editor
EditorFiles ==
  {<<CH, CH>>,
   embedCommentsInMarkdown(<<CH, COMMENT_START("c1"), CH, COMMENT_END("c1")>>,
                           <<BaseComment>>)}

InitEditor ==
  /\ doc = <<>>
  /\ mdText = <<>>
  /\ markdown = <<>>
  /\ comments = <<>>
  /\ isUpdatingRef = FALSE
  /\ mdIsUpdatingRef = FALSE
  /\ isDirty = FALSE
  /\ usedIds = {}
  /\ lastOp = [kind |-> "init", blocked |-> FALSE, bodies |-> <<>>, threw |-> FALSE]

\* the editor when no update of a receiving editor raises
NextEditor ==
  \/ WysiwygDelete(FALSE)
  \/ WysiwygType(FALSE)
  \/ MarkdownDelete(FALSE)
  \/ MarkdownType({CH}, FALSE)
  \/ MarkdownType(MarkerTokens, FALSE)
  \/ AddComment
  \/ \E id \in IdPool : DeleteComment(id)
  \/ \E content \in EditorFiles : FileOpen(content)
  \/ NewFile

\* text edits and file operations when the update of the receiving editor
\* may raise (marked.parse, ProseMirror setContent, CodeMirror dispatch)
NextSync ==
  \/ \E throws \in BOOLEAN : WysiwygDelete(throws)
  \/ \E throws \in BOOLEAN : WysiwygType(throws)
  \/ \E throws \in BOOLEAN : MarkdownDelete(throws)
  \/ \E throws \in BOOLEAN : MarkdownType({CH}, throws)
  \/ \E content \in EditorFiles : FileOpen(content)
  \/ NewFile

-----------------------------------------------------------------------------
(* The SVG sanitizer, extensions/MermaidBlock.tsx.  Markup is a sequence of
   element nodes; an attribute is a pair <<name, value>>, the name a
   sequence of string pieces and the value a sequence of tokens. *)

DANGEROUS_ELEMENTS ==
  {"script", "style", "object", "embed", "iframe", "applet", "form", "input",
   "textarea", "select", "button", "link", "meta", "base"}

Element(tag, attrs, kids) == [tag |-> tag, attrs |-> attrs, kids |-> kids]

\* attr.name.startsWith('on')
StartsWithOn(name) == name[1] = "on"

\* String.prototype.toLowerCase on the pieces of a value
toLowerCase(v) ==
  [i \in 1..Len(v) |-> IF v[i] = <<"JavaScript:">> THEN <<"javascript:">> ELSE v[i]]

\* val.trim().toLowerCase() starts with javascript: or data:
UnsafeUri(val) ==
  LET trimmed == toLowerCase(Trim(val)) IN
  /\ Len(trimmed) > 0
  /\ trimmed[1] \in {<<"javascript:">>, <<"data:">>}

HrefNames == {<<"href">>, <<"xlink:", "href">>}

\* the attributes the allElements.forEach callback leaves on an element
ScrubAttrs(attrs) ==
  {a \in attrs :
     /\ ~StartsWithOn(a[1])
     /\ ~(a[1] \in HrefNames /\ Len(a[2]) > 0 /\ UnsafeUri(a[2]))}

RECURSIVE RemoveDangerous(_)
\* svgEl.querySelectorAll(tag).forEach(el => el.remove()) for every tag of
\* the deny-list, applied to the children kids of an element
RemoveDangerous(kids) ==
  IF Len(kids) = 0 THEN <<>>
  ELSE LET n == Head(kids) IN
       (IF n.tag \in DANGEROUS_ELEMENTS THEN <<>>
        ELSE <<[n EXCEPT !.kids = RemoveDangerous(n.kids)]>>)
       \o RemoveDangerous(Tail(kids))

RECURSIVE ScrubDescendants(_)
\* svgEl.querySelectorAll('*').forEach(...): the descendants of svgEl
ScrubDescendants(kids) ==
  IF Len(kids) = 0 THEN <<>>
  ELSE LET n == Head(kids) IN
       <<[n EXCEPT !.attrs = ScrubAttrs(n.attrs),
                   !.kids = ScrubDescendants(n.kids)]>>
       \o ScrubDescendants(Tail(kids))

RECURSIVE QuerySvg(_)
\* doc.body.querySelector('svg'): the first svg element in document order,
\* as a sequence of at most one element
QuerySvg(nodes) ==
  IF Len(nodes) = 0 THEN <<>>
  ELSE LET n == Head(nodes)
           here == IF n.tag = "svg" THEN <<n>> ELSE QuerySvg(n.kids)
       IN IF Len(here) > 0 THEN here ELSE QuerySvg(Tail(nodes))

\* svgEl.setAttribute('width', '100%'); removeAttribute('height'), ('style')
Resize(attrs) ==
  {a \in attrs : a[1] \notin {<<"width">>, <<"height">>, <<"style">>}}
  \cup {<<<<"width">>, <<<<"100%">>>>>>}

sanitizeSvg(svg) ==
  LET found == QuerySvg(svg) IN
  IF Len(found) = 0 THEN svg
  ELSE LET svgEl == found[1] IN
       <<Element("svg", Resize(svgEl.attrs),
                 ScrubDescendants(RemoveDangerous(svgEl.kids)))>>

\* attributes an engine output may carry
AttrPool ==
  {<<<<"on", "load">>, <<<<"alert(1)">>>>>>,
   <<<<"href">>, <<SP, <<"JavaScript:">>, <<"alert(1)">>>>>>,
   <<<<"xlink:", "href">>, <<<<"data:">>, <<"text/html">>>>>>,
   <<<<"href">>, <<<<"#node">>>>>>,
   <<<<"fill">>, <<<<"red">>>>>>}

AttrSets == {{}} \cup {{a} : a \in AttrPool}

Leaves == {Element(t, as, <<>>) : t \in {"rect", "script"}, as \in AttrSets}

Groups == {Element("g", {}, <<l>>) : l \in Leaves}

\* engine outputs: a drawing under an <svg> root, and markup without one
SvgInputs ==
  {<<Element("svg", as, kids)>> :
     as \in AttrSets, kids \in SeqsUpTo(Leaves \cup Groups, MaxKids)}
  \cup {<<l>> : l \in Leaves}

Sanitize(svg) ==
  /\ sanPc = "idle"
  /\ sanIn' = svg
  /\ sanOut' = sanitizeSvg(svg)
  /\ sanPc' = "done"
  /\ UNCHANGED notSan

InitSan ==
  /\ sanPc = "idle"
  /\ sanIn = <<>>
  /\ sanOut = <<>>

NextSan == \E svg \in SvgInputs : Sanitize(svg)

-----------------------------------------------------------------------------
(* The diagram render queue, extensions/MermaidBlock.tsx *)

Blocks == {"b1", "b2"}

\* diagram sources; the engine rejects "bad"
Codes == {"A", "B", "bad"}

\* getMermaidId: `mermaid-${Date.now()}-${++mermaidCounter}`, told apart by
\* the counter
getMermaidId(counter) == <<"mermaid", counter>>

\* what mermaid.render(id, src) settles with when it runs alone
EngineOutput(id, src) ==
  IF src = "bad"
  THEN [ok |-> FALSE, value |-> <<"Parse error", src>>]
  ELSE [ok |-> TRUE,
        value |-> <<Element("svg",
                            {<<<<"id">>, <<id>>>>, <<<<"height">>, <<<<"120">>>>>>},
                            <<Element("g", {<<<<"class">>, <<<<src>>>>>>}, <<>>)>>)>>]

\* the requests whose engine call is in progress
InProgress == {i \in 1..Len(requests) : requests[i].state = "running"}

\* a chain whose promise rejects when the engine call failed: the callbacks
\* chained behind a failure never run
ChainOnSuccess(k) ==
  IF k = 0 THEN TRUE ELSE requests[k].state = "settled" /\ requests[k].outcome.ok

\* a promise of the chain is fulfilled: Promise.resolve(), or the promise of
\* an async callback that returned (its catch swallows every failure)
ChainFulfilled(k) == IF k = 0 THEN TRUE ELSE requests[k].state = "settled"

\* a chain that does not advance: every request waits for the first promise
Unchained(tail, new) == tail

\* renderQueue = renderQueue.then(...): the promise the variable holds next
Chained(tail, new) == new

\* an engine call that reads the source of the newest request
LatestCode(i) == requests[Len(requests)].code

\* mermaid.render(id, code): code is the argument of this call of
\* queueMermaidRender
RenderArg(i) == requests[i].code

NoView == [req |-> 0, svg |-> <<>>, error |-> NullV]

\* the render effect of MermaidComponent of block b runs for code: the
\* cleanup of the previous run sets its cancelled, then queueMermaidRender
\* chains a callback on renderQueue
RequestRender(b, code) ==
  /\ Len(requests) < MaxRequests
  /\ LET n == Len(requests) + 1
         old == [i \in 1..Len(requests) |->
                   IF requests[i].block = b
                   THEN [requests[i] EXCEPT !.cancelled = TRUE]
                   ELSE requests[i]]
     IN /\ requests' =
             Append(old, [block |-> b, code |-> code, after |-> renderQueue,
                          waited |-> ~ChainFulfilled(renderQueue),
                          state |-> "queued", id |-> NullV, src |-> "",
                          outcome |-> NullV, cancelled |-> FALSE])
        /\ renderQueue' = Chained(renderQueue, n)
  /\ UNCHANGED <<mermaidCounter, started, view, notRender>>

\* the callback of request i runs once the promise it was chained on is
\* fulfilled: getMermaidId, initMermaid, mermaid.render(id, code) begins
StartRender(i) ==
  /\ requests[i].state = "queued"
  /\ ChainFulfilled(requests[i].after)
  /\ mermaidCounter' = mermaidCounter + 1
  /\ requests' = [requests EXCEPT ![i].state = "running",
                                  ![i].id = getMermaidId(mermaidCounter + 1),
                                  ![i].src = RenderArg(i)]
  /\ started' = Append(started, i)
  /\ UNCHANGED <<renderQueue, view, notRender>>

\* the engine call of request i settles; the engine is not reentrant, with
\* several calls in progress the output may come from the source of any of
\* them.  resolve(svg) / reject(err), then the then / catch handler of the
\* component: setSvg(sanitizeSvg(svg)), setError, unless cancelled
FinishRender(i) ==
  /\ requests[i].state = "running"
  /\ \E j \in InProgress :
       LET out == EngineOutput(requests[i].id, requests[j].src)
           b == requests[i].block
       IN /\ requests' = [requests EXCEPT ![i].state = "settled",
                                          ![i].outcome = out]
          /\ view' =
               IF requests[i].cancelled THEN view
               ELSE IF out.ok
               THEN [view EXCEPT ![b] = [req |-> i, svg |-> sanitizeSvg(out.value),
                                         error |-> NullV]]
               ELSE [view EXCEPT ![b] = [req |-> i, svg |-> <<>>,
                                         error |-> out.value]]
  /\ UNCHANGED <<renderQueue, mermaidCounter, started, notRender>>

InitRender ==
  /\ requests = <<>>
  /\ renderQueue = 0
  /\ mermaidCounter = 0
  /\ started = <<>>
  /\ view = [b \in Blocks |-> NoView]

NextRender ==
  \/ \E b \in Blocks, code \in Codes : RequestRender(b, code)
  \/ \E i \in 1..Len(requests) : StartRender(i)
  \/ \E i \in 1..Len(requests) : FinishRender(i)

-----------------------------------------------------------------------------
(* One diagram block: MermaidComponent, extensions/MermaidBlock.tsx 112-203 *)

EmptyCode == ""
BlockCodes == Codes \cup {EmptyCode}

\* the requests of the block whose effect run was not cleaned up and whose
\* promise has not settled
LiveRenders ==
  {i \in 1..Len(blkRenders) :
     ~blkRenders[i].cancelled /\ ~blkRenders[i].settled}

\* a change of [code, isEditing]: the cleanup of the previous effect run
\* sets its cancelled, then the effect runs: it returns at once when the
\* block is being edited or has no code, else it calls queueMermaidRender
RenderEffect(editing, src) ==
  LET old == [i \in 1..Len(blkRenders) |->
                [blkRenders[i] EXCEPT !.cancelled = TRUE]]
  IN IF editing \/ src = EmptyCode THEN old
     ELSE Append(old, [code |-> src, cancelled |-> FALSE, settled |-> FALSE])

\* the node view is created for a node with this code
BlockMount(src) ==
  /\ ~blkMounted
  /\ blkMounted' = TRUE
  /\ blkCode' = src
  /\ blkEditing' = (src = EmptyCode)
  /\ blkRenders' = RenderEffect(src = EmptyCode, src)
  /\ UNCHANGED <<blkSvg, blkError, notBlk>>

\* textarea onChange (and Tab): updateAttributes({ code })
BlockType(src) ==
  /\ blkMounted /\ blkEditing /\ src # blkCode
  /\ blkCode' = src
  /\ blkRenders' = RenderEffect(TRUE, src)
  /\ UNCHANGED <<blkMounted, blkEditing, blkSvg, blkError, notBlk>>

\* Preview: handleSave writes the textarea value, which every change has
\* already written, and leaves editing
BlockPreview ==
  /\ blkMounted /\ blkEditing
  /\ Len(blkRenders) < MaxRenders
  /\ blkEditing' = FALSE
  /\ blkRenders' = RenderEffect(FALSE, blkCode)
  /\ UNCHANGED <<blkMounted, blkCode, blkSvg, blkError, notBlk>>

\* Edit: setIsEditing(true)
BlockEdit ==
  /\ blkMounted /\ ~blkEditing
  /\ blkEditing' = TRUE
  /\ blkRenders' = RenderEffect(TRUE, blkCode)
  /\ UNCHANGED <<blkMounted, blkCode, blkSvg, blkError, notBlk>>

\* the code attribute of the node changes while the block shows its
\* preview (undo, redo, a transaction of the editor)
BlockSetCode(src) ==
  /\ blkMounted /\ ~blkEditing /\ src # blkCode
  /\ Len(blkRenders) < MaxRenders
  /\ blkCode' = src
  /\ blkRenders' = RenderEffect(FALSE, src)
  /\ UNCHANGED <<blkMounted, blkEditing, blkSvg, blkError, notBlk>>

\* what request i of the block settles with: the queue runs one engine
\* call at a time, each for the code of its own request
RenderOutcome(i) == EngineOutput(getMermaidId(i), blkRenders[i].code)

\* the promise of request i settles: the then / catch handler of its
\* effect run sets svg and error unless that run was cleaned up
BlockSettle(i) ==
  /\ ~blkRenders[i].settled
  /\ blkRenders' = [blkRenders EXCEPT ![i].settled = TRUE]
  /\ LET out == RenderOutcome(i) IN
       IF blkRenders[i].cancelled THEN UNCHANGED <<blkSvg, blkError>>
       ELSE IF out.ok
       THEN blkSvg' = sanitizeSvg(out.value) /\ blkError' = NullV
       ELSE blkSvg' = <<>> /\ blkError' = out.value
  /\ UNCHANGED <<blkMounted, blkCode, blkEditing, notBlk>>

InitBlk ==
  /\ blkMounted = FALSE
  /\ blkCode = EmptyCode
  /\ blkEditing = FALSE
  /\ blkSvg = <<>>
  /\ blkError = NullV
  /\ blkRenders = <<>>

NextBlk ==
  \/ \E src \in BlockCodes : BlockMount(src)
  \/ \E src \in BlockCodes : BlockType(src)
  \/ BlockPreview
  \/ BlockEdit
  \/ \E src \in BlockCodes : BlockSetCode(src)
  \/ \E i \in 1..Len(blkRenders) : BlockSettle(i)

-----------------------------------------------------------------------------
(* The recency cache of the mention input, part_009 25-36 *)

MAX_RECENT == 20

PersonIds == 1..(MAX_RECENT + MaxExtra)
\* a person as the people service returns it; the same id may come back
\* with another name
Person(id, name) == [id |-> id, name |-> name]

RECURSIVE Without(_, _)
\* recentPeople.filter((p) => p.id !== id)
Without(list, id) ==
  IF Len(list) = 0 THEN <<>>
  ELSE (IF Head(list).id # id THEN <<Head(list)>> ELSE <<>>)
       \o Without(Tail(list), id)

\* a filter that keeps every entry
WithoutNothing(list, id) == list

\* recentPeople.filter((p) => p.id !== person.id)
OtherPeople(list, id) == Without(list, id)

\* list.slice(0, n)
Slice(list, n) == SubSeq(list, 1, Min({n, Len(list)}))

\* the value addRecentPerson assigns to recentPeople
WithRecent(list, person) ==
  Slice(<<person>> \o OtherPeople(list, person.id), MAX_RECENT)

CachedIds(list) == {list[i].id : i \in 1..Len(list)}

\* addRecentPerson(person)
addRecentPerson(person) ==
  /\ mruClock < MAX_RECENT + MaxExtra + MaxReAdds
  /\ person.id \in CachedIds(recentPeople) => mruReAdds < MaxReAdds
  /\ recentPeople' = WithRecent(recentPeople, person)
  /\ mruClock' = mruClock + 1
  /\ mruAddedAt' = [mruAddedAt EXCEPT ![person.id] = mruClock + 1]
  /\ mruReAdds' = IF person.id \in CachedIds(recentPeople)
                  THEN mruReAdds + 1 ELSE mruReAdds
  /\ UNCHANGED notMru

\* the people picked in a session: the next person not picked before, or
\* again the person at the front or at the end of the cache
Picks ==
  LET fresh == {id \in PersonIds : mruAddedAt[id] = 0}
      again == IF Len(recentPeople) = 0 THEN {}
               ELSE {recentPeople[1].id, recentPeople[Len(recentPeople)].id}
  IN {Person(id, <<"b">>) : id \in IF fresh = {} THEN {} ELSE {Min(fresh)}}
     \cup {Person(id, name) : id \in again, name \in {<<"b">>, <<"c">>}}

InitMru ==
  /\ recentPeople = <<>>
  /\ mruClock = 0
  /\ mruAddedAt = [id \in PersonIds |-> 0]
  /\ mruReAdds = 0

NextMru == \E person \in Picks : addRecentPerson(person)

-----------------------------------------------------------------------------
(* The mention input, part_009 147-364, and the people lookups: the Teams
   people picker (part_009 254-281) and the directory search of the earlier
   picker (part_008 96-128).  The comment text is a sequence of characters. *)

NoPos == 0 - 1                  \* mentionStartPos is null
TextChars == {"@", "a", " "}
\* the people a lookup or the candidate list offers
People == {Person(1, <<"b">>), Person(2, <<"c">>)}

\* value.substring(0, startPos)
BeforeSpan(v, startPos) == SubSeq(v, 1, startPos)

\* the text after the trigger character only
AfterTrigger(v, startPos, query) == SubSeq(v, startPos + 2, Len(v))

\* value.substring(startPos + query.length + 1)
AfterSpan(v, startPos, query) == SubSeq(v, startPos + Len(query) + 2, Len(v))

\* `${before}@${person.name} ${after}`
Inserted(v, person, startPos, query) ==
  BeforeSpan(v, startPos) \o <<"@">> \o person.name \o <<" ">>
  \o AfterSpan(v, startPos, query)

\* handleChange: the mention session the new text and cursor position give
MentionOf(newValue, cursorPos) ==
  LET ats == {i \in 1..cursorPos : newValue[i] = "@"}
      lastAtIndex == IF ats = {} THEN NoPos ELSE Max(ats) - 1
      textAfterAt == SubSeq(newValue, lastAtIndex + 2, cursorPos)
  IN IF lastAtIndex # NoPos
        /\ \A i \in 1..Len(textAfterAt) : textAfterAt[i] # " "
     THEN [active |-> TRUE, startPos |-> lastAtIndex, query |-> textAfterAt]
     ELSE [active |-> FALSE, startPos |-> NoPos, query |-> <<>>]

NoSearch == <<"off">>     \* the mention input has no directory search
NoTimer == <<"none">>
NoResults == [query |-> <<"none">>]

\* the search effect of the earlier picker runs for a changed query: the
\* cleanup clears the pending timer; a query of fewer than two characters
\* empties the results, a longer one starts the debounce timer
SearchEffect(query) ==
  IF dirTimer = NoSearch \/ query = searchQuery
  THEN UNCHANGED <<dirTimer, dirResults>>
  ELSE IF Len(query) < 2 THEN dirTimer' = NoTimer /\ dirResults' = NoResults
  ELSE dirTimer' = query /\ UNCHANGED dirResults

mruHistory == <<mruClock, mruAddedAt, mruReAdds>>

\* handleChange(newValue) with the cursor at cursorPos
handleChange(newValue, cursorPos) ==
  LET m == MentionOf(newValue, cursorPos) IN
  /\ menValue' = newValue
  /\ mentionActive' = m.active
  /\ mentionStartPos' = m.startPos
  /\ searchQuery' = m.query
  /\ SearchEffect(m.query)
  /\ menLast' = [kind |-> "change"]
  /\ UNCHANGED <<mentions, picker, dirInflight, notMen>>

\* the user types ch after the first at characters of the text
TypeText(ch, at) ==
  /\ Len(menValue) < MaxBufLen
  /\ handleChange(SubSeq(menValue, 1, at) \o <<ch>>
                  \o SubSeq(menValue, at + 1, Len(menValue)), at + 1)

\* the user deletes the character at position at
DeleteText(at) ==
  handleChange(SubSeq(menValue, 1, at - 1)
               \o SubSeq(menValue, at + 1, Len(menValue)), at - 1)

\* insertMention(person, startPos, query) of the render that saw the text v:
\* onChange(newValue), onMentionSelect(person), addRecentPerson(person),
\* and the end of the mention session
insertMention(v, person, startPos, query) ==
  /\ menValue' = Inserted(v, person, startPos, query)
  /\ mentions' = Append(mentions, person)
  /\ recentPeople' = WithRecent(recentPeople, person)
  /\ mentionActive' = FALSE
  /\ SearchEffect(<<>>)
  /\ searchQuery' = <<>>
  /\ mentionStartPos' = NoPos
  /\ UNCHANGED <<dirInflight, mruHistory, notMenMru>>

\* handleSelect(person): a candidate of the dropdown is clicked or entered
handleSelect(person) ==
  /\ mentionActive
  /\ mentionStartPos # NoPos
  /\ Len(mentions) < MaxMentions
  /\ insertMention(menValue, person, mentionStartPos, searchQuery)
  /\ menLast' =
       [kind |-> "select",
        inside |-> /\ mentionStartPos > 0 /\ Len(searchQuery) > 0
                   /\ mentionStartPos + 1 + Len(searchQuery) < Len(menValue),
        moved |-> \E i \in 2..Len(recentPeople) : recentPeople[i].id = person.id]
  /\ UNCHANGED picker

\* the message is sent (handleSendReply): the parent empties the text and
\* the mention list and closes the reply box, which unmounts the input
SendMessage ==
  /\ Len(menValue) > 0
  /\ menValue' = <<>>
  /\ mentions' = <<>>
  /\ mentionActive' = FALSE
  /\ searchQuery' = <<>>
  /\ mentionStartPos' = NoPos
  /\ menLast' = [kind |-> "sent"]
  /\ UNCHANGED <<picker, dirTimer, dirInflight, dirResults, notMen>>

\* Escape in the dropdown
MentionEscape ==
  /\ mentionActive
  /\ mentionActive' = FALSE
  /\ menLast' = [kind |-> "escape"]
  /\ UNCHANGED <<menValue, searchQuery, mentionStartPos, mentions, picker,
                 dirTimer, dirInflight, dirResults, notMen>>

NoPicker == [open |-> FALSE]

\* openTeamsPeoplePicker up to its await: the position, the query and the
\* insertMention of this render are kept for the continuation
openTeamsPeoplePicker ==
  /\ dirTimer = NoSearch
  /\ mentionActive
  /\ mentionStartPos # NoPos
  /\ ~picker.open
  /\ picker' = [open |-> TRUE, value |-> menValue,
                savedStartPos |-> mentionStartPos, savedQuery |-> searchQuery]
  /\ mentionActive' = FALSE
  /\ menLast' = [kind |-> "picker"]
  /\ UNCHANGED <<menValue, searchQuery, mentionStartPos, mentions,
                 dirTimer, dirInflight, dirResults, notMen>>

\* people.selectPeople resolves with a person: the continuation of
\* openTeamsPeoplePicker calls the insertMention it kept
PickerSelected(person) ==
  /\ picker.open
  /\ Len(mentions) < MaxMentions
  /\ insertMention(picker.value, person, picker.savedStartPos, picker.savedQuery)
  /\ picker' = NoPicker
  /\ menLast' = [kind |-> "picked"]

\* people.selectPeople resolves with nobody, or rejects
PickerDismissed ==
  /\ picker.open
  /\ picker' = NoPicker
  /\ menLast' = [kind |-> "dismissed"]
  /\ UNCHANGED <<menValue, mentionActive, searchQuery, mentionStartPos,
                 mentions, dirTimer, dirInflight, dirResults, notMen>>

\* the earlier picker is the mention input in use
MountEarlierPicker ==
  /\ menLast.kind = "init"
  /\ dirTimer = NoSearch
  /\ dirTimer' = NoTimer
  /\ menLast' = [kind |-> "mounted"]
  /\ UNCHANGED <<menValue, mentionActive, searchQuery, mentionStartPos,
                 mentions, picker, dirInflight, dirResults, notMen>>

\* the debounce timer of the search effect fires: searchUsers is called
DirSearchStart ==
  /\ dirTimer \notin {NoTimer, NoSearch}
  /\ dirInflight' = dirInflight \cup {dirTimer}
  /\ dirTimer' = NoTimer
  /\ menLast' = [kind |-> "search"]
  /\ UNCHANGED <<menValue, mentionActive, searchQuery, mentionStartPos,
                 mentions, picker, dirResults, notMen>>

\* searchUsers(getToken, query) resolves: setResults(users)
DirSearchDone(query) ==
  /\ query \in dirInflight
  /\ dirInflight' = dirInflight \ {query}
  /\ dirResults' = [query |-> query]
  /\ menLast' = [kind |-> "found"]
  /\ UNCHANGED <<menValue, mentionActive, searchQuery, mentionStartPos,
                 mentions, picker, dirTimer, notMen>>

InitMen ==
  /\ menValue = <<>>
  /\ mentionActive = FALSE
  /\ searchQuery = <<>>
  /\ mentionStartPos = NoPos
  /\ mentions = <<>>
  /\ picker = NoPicker
  /\ dirTimer = NoSearch
  /\ dirInflight = {}
  /\ dirResults = NoResults
  /\ menLast = [kind |-> "init"]

\* writing a message with mentions chosen from the dropdown
NextMen ==
  \/ \E ch \in TextChars, at \in 0..Len(menValue) : TypeText(ch, at)
  \/ \E at \in 1..Len(menValue) : DeleteText(at)
  \/ \E person \in People : handleSelect(person)
  \/ MentionEscape
  \/ SendMessage

\* writing a message, the cursor at its end, while people lookups are
\* pending
NextLookup ==
  \/ \E ch \in TextChars : TypeText(ch, Len(menValue))
  \/ Len(menValue) > 0 /\ DeleteText(Len(menValue))
  \/ MountEarlierPicker
  \/ openTeamsPeoplePicker
  \/ \E person \in People : PickerSelected(person)
  \/ PickerDismissed
  \/ DirSearchStart
  \/ \E query \in dirInflight : DirSearchDone(query)

-----------------------------------------------------------------------------
(* The dropdown of the mention input, part_009 178-217 and 366-393: the
   candidate list and the highlighted row.  The people of the model have no
   email address (email ''), which no query of one character or more is a
   part of. *)

DropChars == {"@", "A"}

\* one character of String.prototype.toLowerCase
Lower(ch) == IF ch = "A" THEN "a" ELSE ch

\* String.prototype.toLowerCase on a name or a query
LowerCase(s) == [i \in 1..Len(s) |-> Lower(s[i])]

\* s.includes(q)
Includes(s, q) ==
  \E i \in 0..(Len(s) - Len(q)) : SubSeq(s, i + 1, i + Len(q)) = q

\* p.name.LowerCase().includes(q) || p.email.LowerCase().includes(q)
Matches(p, q) == Includes(LowerCase(p.name), q)

\* prop localAuthors: extractKnownAuthors of the comments of the document
LocalAuthors == <<Person(1, <<"a", "a">>), Person(3, <<"a", "A">>)>>

\* the people another mention input offers
OtherPicks == {Person(2, <<"A">>)}

\* searchLocalAuthors(authors, query)
searchLocalAuthors(authors, query) ==
  IF Len(query) < 1 THEN <<>>
  ELSE SelectSeq(authors, LAMBDA a : Matches(a, LowerCase(query)))

\* the recency cache entries the results effect takes for q
mruHits(q) ==
  IF Len(q) > 0 THEN SelectSeq(recentPeople, LAMBDA p : Matches(p, q))
  ELSE recentPeople

\* the document participants the results effect takes for q
docPeople(q) ==
  IF Len(LocalAuthors) > 0
  THEN (IF Len(q) > 0 THEN searchLocalAuthors(LocalAuthors, q)
        ELSE LocalAuthors)
  ELSE <<>>

RECURSIVE dedup(_)
\* dedup(list): the first entry of every id
dedup(list) ==
  IF Len(list) = 0 THEN <<>>
  ELSE IF list[Len(list)].id \in CachedIds(SubSeq(list, 1, Len(list) - 1))
  THEN dedup(SubSeq(list, 1, Len(list) - 1))
  ELSE Append(dedup(SubSeq(list, 1, Len(list) - 1)), list[Len(list)])

\* the results effect, which runs when mentionActive or searchQuery has
\* changed (localAuthors does not change here): no results when no mention
\* is active, else the cache hits, then the document people, and the first
\* row highlighted
ResultsEffect(active, query) ==
  IF active = mentionActive /\ query = searchQuery
  THEN UNCHANGED <<results, selectedIndex>>
  ELSE IF ~active THEN results' = <<>> /\ UNCHANGED selectedIndex
  ELSE /\ results' = dedup(mruHits(LowerCase(query))
                           \o docPeople(LowerCase(query)))
       /\ selectedIndex' = 0

\* the number that stands for the id `adhoc-${searchQuery}`, outside the
\* ids of the people service
RECURSIVE AdHocId(_)
AdHocId(query) ==
  IF Len(query) = 0 THEN 100
  ELSE 4 * AdHocId(SubSeq(query, 1, Len(query) - 1))
       + (CHOOSE k \in 1..3 : <<"@", "a", "A">>[k] = query[Len(query)])

adHocPerson == Person(AdHocId(searchQuery), searchQuery)

adHocVisible ==
  /\ mentionActive
  /\ Len(searchQuery) >= 1
  /\ ~\E i \in 1..Len(results) :
        LowerCase(results[i].name) = LowerCase(searchQuery)

selectableItems ==
  IF adHocVisible THEN Append(results, adHocPerson) ELSE results

\* one row less than the dropdown has
OnlyPersons == Len(selectableItems)

totalItems == Len(selectableItems) + 1

searchOptionIndex == Len(selectableItems)

\* what the actions of the dropdown leave alone
dropFrame ==
  <<picker, dirTimer, dirInflight, dirResults, menLast, mruHistory, notMenMruDrop>>

\* handleChange(newValue) with the cursor at cursorPos, and the results
\* effect of the render that follows
DropdownChange(newValue, cursorPos) ==
  LET m == MentionOf(newValue, cursorPos) IN
  /\ menValue' = newValue
  /\ mentionActive' = m.active
  /\ mentionStartPos' = m.startPos
  /\ searchQuery' = m.query
  /\ ResultsEffect(m.active, m.query)
  /\ UNCHANGED <<mentions, recentPeople, dropFrame>>

\* the user types ch at the end of the text
DropdownType(ch) ==
  /\ Len(menValue) < MaxTyped
  /\ DropdownChange(Append(menValue, ch), Len(menValue) + 1)

\* the user deletes the last character of the text
DropdownDelete ==
  /\ Len(menValue) > 0
  /\ DropdownChange(SubSeq(menValue, 1, Len(menValue) - 1), Len(menValue) - 1)

\* handleSelect(person) for a row of the dropdown: insertMention, and the
\* results effect of the render that follows
DropdownSelect(person) ==
  /\ mentionActive
  /\ mentionStartPos # NoPos
  /\ Len(mentions) < MaxMentions
  /\ menValue' = Inserted(menValue, person, mentionStartPos, searchQuery)
  /\ mentions' = Append(mentions, person)
  /\ recentPeople' = WithRecent(recentPeople, person)
  /\ mentionActive' = FALSE
  /\ searchQuery' = <<>>
  /\ mentionStartPos' = NoPos
  /\ ResultsEffect(FALSE, <<>>)
  /\ UNCHANGED dropFrame

\* the dropdown is closed by Escape, or by openSearchPeople, which hands
\* over to the people picker or the dialog: setMentionActive(false)
DropdownClose ==
  /\ mentionActive' = FALSE
  /\ ResultsEffect(FALSE, searchQuery)
  /\ UNCHANGED <<menValue, searchQuery, mentionStartPos, mentions,
                 recentPeople, dropFrame>>

Keys == {"ArrowDown", "ArrowUp", "Enter", "Escape"}

\* handleKeyDown(e)
handleKeyDown(key) ==
  /\ mentionActive /\ totalItems # 0
  /\ IF key = "ArrowDown"
     THEN /\ selectedIndex' = (selectedIndex + 1) % totalItems
          /\ UNCHANGED <<results, menValue, mentionActive, searchQuery,
                         mentionStartPos, mentions, recentPeople, dropFrame>>
     ELSE IF key = "ArrowUp"
     THEN /\ selectedIndex' = (selectedIndex - 1 + totalItems) % totalItems
          /\ UNCHANGED <<results, menValue, mentionActive, searchQuery,
                         mentionStartPos, mentions, recentPeople, dropFrame>>
     ELSE IF key = "Enter" /\ selectedIndex # searchOptionIndex
     THEN /\ selectedIndex < Len(selectableItems)
          /\ DropdownSelect(selectableItems[selectedIndex + 1])
     ELSE DropdownClose

\* a row of the dropdown is clicked
DropdownClick(i) == DropdownSelect(selectableItems[i])

\* another mention input mounted beside this one (the edit box and the reply
\* box of the sidebar) inserts a mention: addRecentPerson on the module
\* variable the inputs share
OtherInputSelect(person) ==
  /\ recentPeople' = WithRecent(recentPeople, person)
  /\ UNCHANGED <<menValue, mentionActive, searchQuery, mentionStartPos,
                 mentions, dropVars, dropFrame>>

InitDrop ==
  /\ results = <<>>
  /\ selectedIndex = 0

\* writing a message with the dropdown, beside another mention input
NextDrop ==
  \/ \E ch \in DropChars : DropdownType(ch)
  \/ DropdownDelete
  \/ \E key \in Keys : handleKeyDown(key)
  \/ \E i \in 1..Len(selectableItems) : DropdownClick(i)
  \/ \E person \in OtherPicks : OtherInputSelect(person)

-----------------------------------------------------------------------------
(* Add-comment on the selection or the word at the cursor,
   WysiwygEditor.tsx 171-177 and 362-399, App.tsx handleAddComment.  The
   document is one paragraph, so a position is 1 plus an offset into its
   text. *)

WordChars == {"a", " "}

ParaStart == 1                       \* $pos.start() in the first paragraph
NoSelection == [text |-> <<"null">>] \* lastSelectionRef.current is null

Range(text, from, to) == [text |-> text, from |-> from, to |-> to]

\* doc.textBetween(from, to, '\n') inside the paragraph
textBetween(from, to) == SubSeq(paraText, from - ParaStart + 1, to - ParaStart)

RECURSIVE WordStart(_, _)
\* while (wordStart > 0 && !/\s/.test(textContent[wordStart - 1])) wordStart--
WordStart(textContent, offset) ==
  IF offset > 0 /\ textContent[offset] # " "
  THEN WordStart(textContent, offset - 1) ELSE offset

RECURSIVE WordEnd(_, _)
\* while (wordEnd < textContent.length && !/\s/.test(textContent[wordEnd])) wordEnd++
WordEnd(textContent, offset) ==
  IF offset < Len(textContent) /\ textContent[offset + 1] # " "
  THEN WordEnd(textContent, offset + 1) ELSE offset

\* the last part of getSelectionOrWord: the word around the position from
WordAt(from) ==
  LET wordStart == WordStart(paraText, from - ParaStart)
      wordEnd == WordEnd(paraText, from - ParaStart)
  IN IF wordStart = wordEnd THEN NoSelection
     ELSE Range(SubSeq(paraText, wordStart + 1, wordEnd),
                ParaStart + wordStart, ParaStart + wordEnd)

\* getSelectionOrWord(): the selected range, else the range kept in
\* lastSelectionRef, else the word at the cursor, else null
getSelectionOrWord ==
  IF selection.from # selection.to
  THEN Range(textBetween(selection.from, selection.to), selection.from, selection.to)
  ELSE IF lastSelectionRef # NoSelection THEN lastSelectionRef
  ELSE WordAt(selection.from)

\* onSelectionUpdate for the selection sel of a text
onSelectionUpdate(text, sel) ==
  lastSelectionRef' =
    IF sel.from # sel.to
    THEN Range(SubSeq(text, sel.from - ParaStart + 1, sel.to - ParaStart),
               sel.from, sel.to)
    ELSE lastSelectionRef

\* setTextSelection({ from, to }) keeps both ends inside the document
Clamp(pos) == Min({Max({pos, ParaStart}), ParaStart + Len(paraText)})

\* the user puts the cursor at a position or selects a range
Select(from, to) ==
  /\ selection' = [from |-> from, to |-> to]
  /\ onSelectionUpdate(paraText, selection')
  /\ UNCHANGED <<paraText, anchored, notWord>>

\* the user types ch: it replaces the selection, the cursor follows it
TypeInPara(ch) ==
  /\ Len(paraText) < MaxParaLen
  /\ paraText' = SubSeq(paraText, 1, selection.from - ParaStart) \o <<ch>>
                 \o SubSeq(paraText, selection.to - ParaStart + 1, Len(paraText))
  /\ selection' = [from |-> selection.from + 1, to |-> selection.from + 1]
  /\ UNCHANGED <<lastSelectionRef, anchored, notWord>>

\* handleAddComment: create({ quotedText }) and addComment(id, from, to),
\* which selects the range, puts the mark on it and so runs
\* onSelectionUpdate
handleAddComment ==
  LET sel == getSelectionOrWord IN
  /\ Len(anchored) < MaxAnchored
  /\ IF sel # NoSelection /\ Len(sel.text) > 0
     THEN /\ anchored' = Append(anchored,
                 [quotedText |-> sel.text, from |-> Clamp(sel.from), to |-> Clamp(sel.to)])
          /\ selection' = [from |-> Clamp(sel.from), to |-> Clamp(sel.to)]
          /\ onSelectionUpdate(paraText, selection')
     ELSE UNCHANGED <<anchored, selection, lastSelectionRef>>
  /\ UNCHANGED <<paraText, notWord>>

InitWord ==
  /\ paraText = <<>>
  /\ selection = [from |-> ParaStart, to |-> ParaStart]
  /\ lastSelectionRef = NoSelection
  /\ anchored = <<>>

NextWord ==
  \/ \E from \in ParaStart..(ParaStart + Len(paraText)) :
       \E to \in from..(ParaStart + Len(paraText)) : Select(from, to)
  \/ \E ch \in WordChars : TypeInPara(ch)
  \/ handleAddComment

-----------------------------------------------------------------------------
(* A file session: open, store operations, save, open again.
   part_005 174-205, stores/commentStore.ts 122-146, 195-221, 298-315.
   The store is kept as the list Object.values returns: the comments in the
   order their keys were inserted. *)

\* the keys of commentsMap after the loop of loadComments, in insertion order
RECURSIVE KeysOf(_)
KeysOf(list) ==
  IF list = <<>> THEN <<>>
  ELSE LET front == KeysOf(SubSeq(list, 1, Len(list) - 1))
           id == list[Len(list)].id
       IN IF \E i \in 1..Len(front) : front[i] = id THEN front ELSE Append(front, id)

\* loadComments(list) followed by Object.values
ObjectValues(list) ==
  LET keys == KeysOf(list) IN [i \in 1..Len(keys) |-> LoadComments(list)[keys[i]]]

\* new Date() of a store operation of the session
SessNow == DateOf(4)

\* update(id, {text})
SessUpdate(list, i) ==
  [list EXCEPT ![i] = [@ EXCEPT !.text = "edited", !.updatedAt = SessNow]]

\* addReply(id, text)
SessAddReply(list, i) ==
  [list EXCEPT ![i] = [@ EXCEPT
     !.replies = Append(@, [id |-> "r2", text |-> "reply", createdAt |-> SessNow]),
     !.updatedAt = SessNow]]

\* delete(id)
SessRemove(list, i) == SubSeq(list, 1, i - 1) \o SubSeq(list, i + 1, Len(list))

\* the payloads of the files of a session: a valid list, or no JSON at all
SessPayloads ==
  {<<JsonStringify(MapSeq(cs, EncodeComment))>> : cs \in CommentLists} \cup {<<CH>>}

SessFiles ==
  {pre \o BlockOf(p) \o suf : pre \in Pads, p \in SessPayloads, suf \in Pads} \cup Pads

\* handleFileOpen: the body and the store are replaced; setContent(html, false)
\* of the rich editor emits no update, so markdown stays the returned body
handleFileOpen(content, pc) ==
  LET r == extractCommentsFromMarkdown(content) IN
  /\ sessMarkdown' = r.markdown
  /\ sessComments' = ObjectValues(r.comments)
  /\ sessPc' = pc
  /\ UNCHANGED <<sessSaved, notSess>>

SessOpen(content) ==
  /\ sessPc = "none"
  /\ handleFileOpen(content, "open")

\* the text of the last save is opened again
SessReopen ==
  /\ sessSaved.done
  /\ handleFileOpen(sessSaved.text, "reopened")

\* the store operations of the sidebar that leave the document alone
SessStoreOp(list) ==
  /\ sessPc # "none"
  /\ sessComments' = list
  /\ sessPc' = "open"
  /\ UNCHANGED <<sessMarkdown, sessSaved, notSess>>

SessEdit(i) == sessComments[i].text # "edited" /\ SessStoreOp(SessUpdate(sessComments, i))

SessReply(i) ==
  /\ Len(sessComments[i].replies) < MaxReplies
  /\ SessStoreOp(SessAddReply(sessComments, i))

SessDelete(i) == SessStoreOp(SessRemove(sessComments, i))

\* getContentForSave and handleSaveFile: a save whose serialisation throws
\* writes nothing
SessSave ==
  /\ sessPc # "none"
  /\ LET out == EmbedCall(sessMarkdown, sessComments) IN
       /\ ~out.threw
       /\ sessSaved' = [done |-> TRUE, text |-> out.text, comments |-> sessComments]
  /\ sessPc' = "open"
  /\ UNCHANGED <<sessMarkdown, sessComments, notSess>>

InitSess ==
  /\ sessPc = "none"
  /\ sessMarkdown = <<>>
  /\ sessComments = <<>>
  /\ sessSaved = [done |-> FALSE, text |-> <<>>, comments |-> <<>>]

NextSess ==
  \/ \E content \in SessFiles : SessOpen(content)
  \/ SessReopen
  \/ \E i \in 1..Len(sessComments) : SessEdit(i)
  \/ \E i \in 1..Len(sessComments) : SessReply(i)
  \/ \E i \in 1..Len(sessComments) : SessDelete(i)
  \/ SessSave

-----------------------------------------------------------------------------
(* Threads and tasks of the comment store, stores/commentStore.ts 92-296.
   A comment is modelled by its id and the fields of its thread and its
   task; its texts and its createdAt / updatedAt stamps are left out. *)

AuthorOf(id) == <<"author", id>>
defaultAuthor == AuthorOf("anonymous")
Users == {AuthorOf("u1")}
ReplyIds == {"r1", "r2"}
Times == 1..MaxTime

\* state.currentUser || defaultAuthor
ActingAuthor == IF currentUser = NullV THEN defaultAuthor ELSE currentUser

\* a resolve that records nobody
ResolvedByNobody(author) == NullV

\* resolvedBy: author
ResolvedBy(author) == author

\* set((state) => ({ comments: { ...state.comments, [id]: comment } }))
Put(id, comment) ==
  [k \in DOMAIN storeComments \cup {id} |->
     IF k = id THEN comment ELSE storeComments[k]]

\* a call with the id of no comment returns the state it was given
StoreOp(kind, id, now, changed) ==
  /\ storeComments' = IF id \in DOMAIN storeComments
                      THEN Put(id, changed) ELSE storeComments
  /\ storeLast' = IF kind \in {"resolve", "unresolve"}
                  THEN [kind |-> kind, id |-> id, now |-> now]
                  ELSE [kind |-> "other", id |-> "", now |-> 0]
  /\ UNCHANGED <<currentUser, notSt>>

setCurrentUser(user) ==
  /\ user # currentUser
  /\ currentUser' = user
  /\ storeLast' = [kind |-> "other", id |-> "", now |-> 0]
  /\ UNCHANGED <<storeComments, notSt>>

\* create(input): uuidv4() gives an id no comment has
StoreCreate(id, assignee) ==
  /\ id \notin DOMAIN storeComments
  /\ storeComments' =
       Put(id, [id |-> id,
                resolved |-> FALSE, resolvedBy |-> NullV, resolvedAt |-> NullV,
                replies |-> <<>>, assignedTo |-> assignee,
                taskCompleted |-> FALSE])
  /\ storeLast' = [kind |-> "other", id |-> "", now |-> 0]
  /\ UNCHANGED <<currentUser, notSt>>

StoreResolve(id, now) ==
  StoreOp("resolve", id, now,
          [storeComments[id] EXCEPT !.resolved = TRUE,
                                    !.resolvedBy = ResolvedBy(ActingAuthor),
                                    !.resolvedAt = DateOf(now)])

StoreUnresolve(id, now) ==
  StoreOp("unresolve", id, now,
          [storeComments[id] EXCEPT !.resolved = FALSE,
                                    !.resolvedBy = NullV,
                                    !.resolvedAt = NullV])

\* addReply(commentId, text, mentions): uuidv4() gives the reply a fresh id
StoreAddReply(id, replyId) ==
  /\ id \in DOMAIN storeComments =>
       /\ Len(storeComments[id].replies) < MaxReplies
       /\ \A k \in DOMAIN storeComments :
            \A i \in 1..Len(storeComments[k].replies) :
              storeComments[k].replies[i].id # replyId
  /\ StoreOp("addReply", id, 0,
             [storeComments[id] EXCEPT
                !.replies = Append(@, [id |-> replyId])])

RECURSIVE WithoutReply(_, _)
\* comment.replies.filter((r) => r.id !== replyId)
WithoutReply(replies, replyId) ==
  IF Len(replies) = 0 THEN <<>>
  ELSE (IF Head(replies).id # replyId THEN <<Head(replies)>> ELSE <<>>)
       \o WithoutReply(Tail(replies), replyId)

StoreDeleteReply(id, replyId) ==
  StoreOp("deleteReply", id, 0,
          [storeComments[id] EXCEPT !.replies = WithoutReply(@, replyId)])

assignTask(id, assignee) ==
  StoreOp("assignTask", id, 0,
          [storeComments[id] EXCEPT !.assignedTo = assignee,
                                    !.taskCompleted = FALSE])

completeTask(id) ==
  StoreOp("completeTask", id, 0,
          [storeComments[id] EXCEPT !.taskCompleted = TRUE])

uncompleteTask(id) ==
  StoreOp("uncompleteTask", id, 0,
          [storeComments[id] EXCEPT !.taskCompleted = FALSE])

InitSt ==
  /\ storeComments = <<>>
  /\ currentUser = NullV
  /\ storeLast = [kind |-> "init", id |-> "", now |-> 0]

NextSt ==
  \/ \E user \in Users \cup {NullV} : setCurrentUser(user)
  \/ \E id \in IdPool, assignee \in {NullV, AuthorOf("u2")} :
       StoreCreate(id, assignee)
  \/ \E id \in IdPool, now \in Times : StoreResolve(id, now)
  \/ \E id \in IdPool, now \in Times : StoreUnresolve(id, now)
  \/ \E id \in IdPool, replyId \in ReplyIds : StoreAddReply(id, replyId)
  \/ \E id \in IdPool, replyId \in ReplyIds : StoreDeleteReply(id, replyId)
  \/ \E id \in IdPool : assignTask(id, AuthorOf("u2"))
  \/ \E id \in IdPool : completeTask(id)
  \/ \E id \in IdPool : uncompleteTask(id)

-----------------------------------------------------------------------------
(* The updatedAt stamp of the store operations, stores/commentStore.ts 92-296.
   A comment is modelled by its id, its text, its resolved flag, the ids of
   its replies, its task fields and its updatedAt. *)

Void == <<"undefined">>

\* an operation that leaves updatedAt as it was
Unstamped(comment, updates, now) ==
  [f \in DOMAIN comment |->
     IF f \in DOMAIN updates THEN updates[f] ELSE comment[f]]

\* { ...comment, ...updates, updatedAt: new Date() }: a later key wins
Merged(comment, updates, now) ==
  [f \in DOMAIN comment |->
     IF f = "updatedAt" THEN DateOf(now)
     ELSE IF f \in DOMAIN updates THEN updates[f] ELSE comment[f]]

\* the objects a caller passes to update
Updates ==
  {[text |-> "edited"],
   [text |-> "edited", updatedAt |-> DateOf(0)]}

\* uuidv4() of the reply of a comment
StampReplyIds == {"r1"}

\* set((state) => { const comment = state.comments[id];
\*                  if (!comment) return state; return { comments: ... } })
AfterStamp(id, updates, now) ==
  IF id \in DOMAIN stampComments
  THEN [stampComments EXCEPT ![id] = Merged(@, updates, now)]
  ELSE stampComments

Stamp(id, updates, now, returned) ==
  /\ stampComments' = AfterStamp(id, updates, now)
  /\ stampReturn' = returned
  /\ UNCHANGED notStamp

\* create(input)
StampCreate(id, now) ==
  /\ id \notin DOMAIN stampComments
  /\ stampComments' =
       (id :> [id |-> id, text |-> "", resolved |-> FALSE, replies |-> <<>>,
               assignedTo |-> NullV, taskCompleted |-> FALSE,
               updatedAt |-> DateOf(now)]) @@ stampComments
  /\ stampReturn' = <<"comment", id>>
  /\ UNCHANGED notStamp

\* the fields each operation writes beside updatedAt
ResolveFields == [resolved |-> TRUE]
UnresolveFields == [resolved |-> FALSE]
AssignFields(assignee) == [assignedTo |-> assignee, taskCompleted |-> FALSE]
CompleteFields == [taskCompleted |-> TRUE]
UncompleteFields == [taskCompleted |-> FALSE]

\* replies: [...comment.replies, reply]
AddReplyFields(id, replyId) ==
  [replies |-> IF id \in DOMAIN stampComments
               THEN Append(stampComments[id].replies, replyId) ELSE <<>>]

\* replies: comment.replies.filter((r) => r.id !== replyId)
DeleteReplyFields(id, replyId) ==
  [replies |-> IF id \in DOMAIN stampComments
               THEN SelectSeq(stampComments[id].replies, LAMBDA r : r # replyId)
               ELSE <<>>]

\* addReply returns null before it touches the store when the comment is
\* not there, the new reply otherwise
addReplyReturn(id, replyId) ==
  IF id \notin DOMAIN stampComments THEN NullV ELSE <<"reply", replyId>>

update(id, updates, now) == Stamp(id, updates, now, Void)

resolve(id, now) == Stamp(id, ResolveFields, now, Void)

unresolve(id, now) == Stamp(id, UnresolveFields, now, Void)

\* uuidv4() gives the reply an id no reply of the comment has
addReply(id, replyId, now) ==
  /\ id \in DOMAIN stampComments =>
       /\ Len(stampComments[id].replies) < MaxReplies
       /\ \A i \in 1..Len(stampComments[id].replies) :
            stampComments[id].replies[i] # replyId
  /\ Stamp(id, AddReplyFields(id, replyId), now, addReplyReturn(id, replyId))

deleteReply(id, replyId, now) ==
  Stamp(id, DeleteReplyFields(id, replyId), now, Void)

StampAssignTask(id, assignee, now) == Stamp(id, AssignFields(assignee), now, Void)

StampCompleteTask(id, now) == Stamp(id, CompleteFields, now, Void)

StampUncompleteTask(id, now) == Stamp(id, UncompleteFields, now, Void)

InitStamp ==
  /\ stampComments = <<>>
  /\ stampReturn = Void

NextStamp ==
  \E id \in IdPool, now \in Times :
    \/ StampCreate(id, now)
    \/ \E updates \in Updates : update(id, updates, now)
    \/ resolve(id, now)
    \/ unresolve(id, now)
    \/ \E replyId \in StampReplyIds : addReply(id, replyId, now)
    \/ \E replyId \in StampReplyIds : deleteReply(id, replyId, now)
    \/ StampAssignTask(id, AuthorOf("u2"), now)
    \/ StampCompleteTask(id, now)
    \/ StampUncompleteTask(id, now)

-----------------------------------------------------------------------------
(* The resolved attribute of the anchor marks, part_004 28-137,
   utils/markdown.ts 140-148, part_005 159-199 and 312-330.
   All marks of one comment id are written together, so the document is
   modelled by one attribute value for each id that has an anchor. *)

\* the class attribute of the span markdownToHtml writes for a marker pair
SpanClasses == {"comment-highlight"}

\* CommentMark resolved.parseHTML: element.classList.contains('resolved')
ParseResolved(classes) == "resolved" \in classes

\* wysiwygRef.setMarkdown(md): markdownToHtml, then setContent parses the
\* spans of the anchors the text holds
SetMarkdownMarks(ids) == [id \in ids |-> ParseResolved(SpanClasses)]

\* resolveComment(id) / unresolveComment(id): every mark with this id is
\* replaced by one with the new attribute
WithResolved(attrs, id, value) ==
  [k \in DOMAIN attrs |-> IF k = id THEN value ELSE attrs[k]]

\* handleFileOpen: the rich editor is set from the body and the store is
\* loaded; flags gives each comment of the file its resolved flag, ids are
\* the comments with an anchor in the body
MarkFileOpen(ids, flags) ==
  /\ markAttrs' = SetMarkdownMarks(ids)
  /\ markComments' = flags
  /\ markLast' = "open"
  /\ UNCHANGED notMark

\* handleMarkdownChange: a raw-markdown edit is handed to the rich editor
MarkMarkdownChange(ids) ==
  /\ markLast # "init"
  /\ markAttrs' = SetMarkdownMarks(ids)
  /\ markLast' = "edit"
  /\ UNCHANGED <<markComments, notMark>>

\* handleAddComment: store.create, then setComment(id) on the selection
MarkAddComment(id) ==
  /\ markLast # "init"
  /\ id \notin DOMAIN markComments /\ id \notin DOMAIN markAttrs
  /\ markComments' = (id :> FALSE) @@ markComments
  /\ markAttrs' = (id :> FALSE) @@ markAttrs
  /\ markLast' = "add"
  /\ UNCHANGED notMark

\* sidebar: resolve(id); onCommentResolve(id)
MarkResolve(id) ==
  /\ id \in DOMAIN markComments
  /\ markComments' = [markComments EXCEPT ![id] = TRUE]
  /\ markAttrs' = WithResolved(markAttrs, id, TRUE)
  /\ markLast' = "resolve"
  /\ UNCHANGED notMark

\* sidebar: unresolve(id); onCommentUnresolve(id)
MarkUnresolve(id) ==
  /\ id \in DOMAIN markComments
  /\ markComments' = [markComments EXCEPT ![id] = FALSE]
  /\ markAttrs' = WithResolved(markAttrs, id, FALSE)
  /\ markLast' = "unresolve"
  /\ UNCHANGED notMark

InitMark ==
  /\ markAttrs = <<>>
  /\ markComments = <<>>
  /\ markLast = "init"

NextMark ==
  \/ \E ids \in SUBSET IdPool, known \in SUBSET IdPool :
       \E flags \in [known -> BOOLEAN] : MarkFileOpen(ids, flags)
  \/ \E ids \in SUBSET IdPool : MarkMarkdownChange(ids)
  \/ \E id \in IdPool : MarkAddComment(id)
  \/ \E id \in IdPool : MarkResolve(id)
  \/ \E id \in IdPool : MarkUnresolve(id)

-----------------------------------------------------------------------------
(* isDirty and the asynchronous save, part_005 143-246, part_014 57-64 *)

NoFile == <<"no file">>
NoSave == <<"no save">>

\* the files of the model were written by the editor: a plain body with a
\* list of comments embedded
SvBodies == {<<CH>>, <<CH, CH>>}
SvFiles ==
  {embedCommentsInMarkdown(b, cs) : b \in SvBodies, cs \in {<<>>, <<BaseComment>>}}

\* handleFileOpen ... setIsDirty(false)
SvOpen(content) ==
  /\ svPending = NoSave
  /\ LET r == extractCommentsFromMarkdown(content) IN
       /\ svMarkdown' = r.markdown
       /\ svComments' = ObjectValues(r.comments)
  /\ svFile' = content
  /\ svDirty' = FALSE
  /\ UNCHANGED <<svPending, notSv>>

\* handleWysiwygChange / handleMarkdownChange: setMarkdown, setIsDirty(true)
SvEdit(newMarkdown) ==
  /\ svFile # NoFile
  /\ newMarkdown # svMarkdown
  /\ svMarkdown' = newMarkdown
  /\ svDirty' = TRUE
  /\ UNCHANGED <<svComments, svFile, svPending, notSv>>

\* update / addReply of the sidebar: the store changes, nothing else does
SvStoreOp(list) ==
  /\ svFile # NoFile
  /\ svComments' = list
  /\ UNCHANGED <<svMarkdown, svDirty, svFile, svPending, notSv>>

SvCommentEdit(i) ==
  svComments[i].text # "edited" /\ SvStoreOp(SessUpdate(svComments, i))

SvReply(i) ==
  /\ Len(svComments[i].replies) < MaxReplies
  /\ SvStoreOp(SessAddReply(svComments, i))

\* handleSaveFile up to its await: the content is taken now
SvSaveStart ==
  /\ svFile # NoFile
  /\ svPending = NoSave
  /\ svPending' = embedCommentsInMarkdown(svMarkdown, svComments)
  /\ UNCHANGED <<svMarkdown, svComments, svDirty, svFile, notSv>>

\* the write has succeeded: useFileStore.getState().setIsDirty(false)
SvSaveDone ==
  /\ svPending # NoSave
  /\ svFile' = svPending
  /\ svDirty' = FALSE
  /\ svPending' = NoSave
  /\ UNCHANGED <<svMarkdown, svComments, notSv>>

\* the write has failed: catch, console.error
SvSaveFail ==
  /\ svPending # NoSave
  /\ svPending' = NoSave
  /\ UNCHANGED <<svMarkdown, svComments, svDirty, svFile, notSv>>

InitSv ==
  /\ svMarkdown = <<>>
  /\ svComments = <<>>
  /\ svDirty = FALSE
  /\ svFile = NoFile
  /\ svPending = NoSave

NextSv ==
  \/ \E content \in SvFiles : SvOpen(content)
  \/ \E b \in SvBodies : SvEdit(b)
  \/ \E i \in 1..Len(svComments) : SvCommentEdit(i)
  \/ \E i \in 1..Len(svComments) : SvReply(i)
  \/ SvSaveStart
  \/ SvSaveDone
  \/ SvSaveFail

-----------------------------------------------------------------------------
(* Specifications *)

Init ==
  /\ InitCodec
  /\ InitConv
  /\ InitEditor
  /\ InitSan
  /\ InitRender
  /\ InitPre
  /\ InitBlk
  /\ InitMru
  /\ InitMen
  /\ InitSt
  /\ InitDrop
  /\ InitWord
  /\ InitSess
  /\ InitStamp
  /\ InitMark
  /\ InitSv

SpecCodec == Init /\ [][NextCodec]_vars

SpecConv == Init /\ [][NextConv]_vars

SpecEditor == Init /\ [][NextEditor]_vars

SpecSync == Init /\ [][NextSync]_vars

SpecSan == Init /\ [][NextSan]_vars

SpecRender == Init /\ [][NextRender]_vars

SpecPre == Init /\ [][NextPre]_vars

SpecBlk == Init /\ [][NextBlk]_vars

SpecMru == Init /\ [][NextMru]_vars

SpecMen == Init /\ [][NextMen]_vars

SpecLookup == Init /\ [][NextLookup]_vars

SpecSt == Init /\ [][NextSt]_vars

SpecDrop == Init /\ [][NextDrop]_vars

SpecWord == Init /\ [][NextWord]_vars

SpecSess == Init /\ [][NextSess]_vars

SpecStamp == Init /\ [][NextStamp]_vars

SpecMark == Init /\ [][NextMark]_vars

SpecSv == Init /\ [][NextSv]_vars

\* the render queue with its scheduling: the job queue of the runtime runs the
\* callback of a fulfilled promise, and every engine call returns or throws
FairRender ==
  /\ SpecRender
  /\ \A i \in 1..MaxRequests :
       /\ WF_vars(i <= Len(requests) /\ StartRender(i))
       /\ WF_vars(i <= Len(requests) /\ FinishRender(i))

-----------------------------------------------------------------------------
(* Properties of the codec *)

\* C1: extractCommentsFromMarkdown(embedCommentsInMarkdown(b, c)) returns
\* exactly the body b (leading and trailing white space included) and the
\* comment list c, dates compared after the ISO-8601 round trip.
C1_EmbedExtractRoundTrip ==
  codecPc = "roundtrip" =>
    codecResult = [markdown |-> codecBody, comments |-> codecComments]

\* the opened text holds a data block whose content is no JSON array
HasMalformedBlock(t) ==
  /\ MatchBlock(t).found
  /\ LET parsed == JsonParse(MatchBlock(t).group) IN
       ~parsed.ok \/ parsed.value.kind # "array"

\* the text with the tokens of its first data block removed
WithoutBlock(t) ==
  LET m == MatchBlock(t) IN
  SubSeq(t, 1, m.from - 1) \o SubSeq(t, m.to + 1, Len(t))

\* C10: on a data block that is not parseable JSON or not a JSON array,
\* extractCommentsFromMarkdown returns an empty comment list and the input
\* with the data block stripped.
C10_MalformedBlockStripped ==
  (codecPc = "opened" /\ HasMalformedBlock(codecText)) =>
    /\ codecResult.comments = <<>>
    /\ codecResult.markdown = WithoutBlock(codecText)

\* a comment or one of its replies carries an Invalid Date
HasInvalidDate(c) ==
  \/ InvalidDate \in {c.createdAt, c.updatedAt, c.resolvedAt, c.taskDueDate}
  \/ \E k \in 1..Len(c.replies) : c.replies[k].createdAt = InvalidDate

\* C11: the codec functions are total: embedCommentsInMarkdown applied to
\* what extractCommentsFromMarkdown returned for any file text returns
\* without throwing, and no returned comment carries an invalid date (a
\* stored invalid or missing date degrades to an empty comment list).
C11_CodecTotal ==
  /\ codecPc \in {"opened", "resaved"} =>
       \A k \in 1..Len(codecResult.comments) :
         ~HasInvalidDate(codecResult.comments[k])
  /\ codecPc = "resaved" => ~codecSaved.threw

\* the text holds the opening line of a data block and, after it, a
\* closing line
ContainsBlock(t) ==
  \E i, j \in 1..Len(t) :
    /\ i + 1 < j /\ j < Len(t)
    /\ t[i] = DATA_START /\ t[i + 1] = NL
    /\ t[j] = NL /\ t[j + 1] = DATA_END

\* C13: embedCommentsInMarkdown(b, []) returns b unchanged (no trimming, no
\* block appended), and extractCommentsFromMarkdown on a text without a
\* data block returns that text unchanged with an empty comment list.
C13_NothingToDo ==
  /\ (codecPc = "embedded" /\ codecComments = <<>>) => codecText = codecBody
  /\ (codecPc = "opened" /\ ~ContainsBlock(codecText)) =>
       codecResult = [markdown |-> codecText, comments |-> <<>>]

\* C13 witness: a body with leading white space was embedded with an empty
\* comment list
C13_EmptyListEmbedded ==
  /\ codecPc = "embedded"
  /\ codecComments = <<>>
  /\ Len(codecBody) > 1
  /\ codecBody[1] = SP

PollutionKeys == {"__proto__", "constructor", "prototype"}
DateKeys == {"createdAt", "updatedAt", "resolvedAt", "taskDueDate"}

RECURSIVE DecodedWithout(_, _)
\* out is the stored object raw without reserved keys at any depth: it has
\* no reserved key, every other key of raw, and the same value under it
\* (dates apart, which are decoded to Date objects)
DecodedWithout(raw, out) ==
  /\ DOMAIN out \cap PollutionKeys = {}
  /\ (DOMAIN raw) \ PollutionKeys \subseteq DOMAIN out
  /\ \A k \in (DOMAIN raw) \ PollutionKeys :
       IF k \in ObjectKeys THEN DecodedWithout(raw[k], out[k])
       ELSE IF k \in ArrayKeys
       THEN /\ Len(out[k]) = Len(raw[k])
            /\ \A i \in 1..Len(raw[k]) : DecodedWithout(raw[k][i], out[k][i])
       ELSE IF k \in DateKeys THEN TRUE
       ELSE out[k] = raw[k]

\* the stored comments of the data block of the opened file
StoredItems == JsonParse(MatchBlock(codecText).group).value.items

\* a stored object holds a reserved key at some depth
RECURSIVE Polluted(_)
Polluted(raw) ==
  \/ DOMAIN raw \cap PollutionKeys # {}
  \/ \E k \in DOMAIN raw \cap ObjectKeys : Polluted(raw[k])
  \/ \E k \in DOMAIN raw \cap ArrayKeys :
       \E i \in 1..Len(raw[k]) : Polluted(raw[k][i])

\* C12: no object at any depth of the comment list returned by
\* extractCommentsFromMarkdown has a key named __proto__, constructor or
\* prototype, and all other keys and values of the block are decoded
\* unchanged.
C12_NoReservedKeys ==
  (codecPc = "opened" /\ Len(codecResult.comments) > 0) =>
    /\ Len(codecResult.comments) = Len(StoredItems)
    /\ \A k \in 1..Len(StoredItems) :
         DecodedWithout(StoredItems[k], codecResult.comments[k])

\* C12 witness: a file whose stored comment holds a reserved key below the
\* top level was opened and its comment returned
C12_PollutedOpened ==
  /\ codecPc = "opened"
  /\ Len(codecResult.comments) > 0
  /\ \E k \in DOMAIN StoredItems[1] \cap ObjectKeys : Polluted(StoredItems[1][k])

\* the tokens of a text that are no white space
Visible(t) == SelectSeq(t, LAMBDA x : x \notin {NL, SP})

\* C30: when extractCommentsFromMarkdown returns the comments parsed from a
\* data block, the returned body holds no data block and is the input less
\* that block and the blank lines that set it off, also when text follows
\* the block; nothing else of the body is removed (compared here on the
\* tokens that are no white space).
C30_ParsedBlockRemoved ==
  (codecPc = "opened" /\ Len(codecResult.comments) > 0) =>
    /\ ~ContainsBlock(codecResult.markdown)
    /\ Visible(codecResult.markdown) = Visible(WithoutBlock(codecText))

\* C23: opening the text of the last save again gives the store of that save:
\* the same ids, each with the comment the store held when the save was made.
C23_ReopenRestoresStore ==
  sessPc = "reopened" =>
    LoadComments(sessComments) = LoadComments(sessSaved.comments)

-----------------------------------------------------------------------------
(* Properties of the preprocessing *)

IsDiagramFile == \E i \in 1..Len(preIn) : preIn[i].kind = "diagram"

RECURSIVE StoredCodes(_)
\* the code attribute of every diagram block the editor parses from HTML
StoredCodes(html) ==
  IF Len(html) = 0 THEN <<>>
  ELSE (IF IsDiv(Head(html)) THEN <<DecodeAttr(Head(html)[2])>> ELSE <<>>)
       \o StoredCodes(Tail(html))

RECURSIVE SourcesOf(_)
SourcesOf(blocks) ==
  IF Len(blocks) = 0 THEN <<>>
  ELSE (IF Head(blocks).kind = "diagram" THEN <<Head(blocks).body>> ELSE <<>>)
       \o SourcesOf(Tail(blocks))

\* C14: a file with a diagram of source s is opened and saved: the diagram
\* block stores exactly s, and the saved text is the text before, a
\* mermaid fence whose body is s, and the text after, as they were.
C14_SourceRoundTrip ==
  (prePc = "saved" /\ IsDiagramFile) =>
    /\ StoredCodes(preHtml) = SourcesOf(preIn)
    /\ preBack = FileText(preIn)

RECURSIVE ExpectedHtml(_)
\* what the markdown parser should receive: text blocks rewritten, code
\* blocks as they are in the file
ExpectedHtml(blocks) ==
  IF Len(blocks) = 0 THEN <<>>
  ELSE (IF Head(blocks).kind = "text"
          THEN PreprocessSegment(BlockText(Head(blocks)))
        ELSE BlockText(Head(blocks)))
       \o (IF Len(blocks) = 1 THEN <<>> ELSE <<NL, NL>>)
       \o ExpectedHtml(Tail(blocks))

\* C15: a file of text blocks and fenced code blocks is opened: the text of
\* every code block reaches the markdown parser unchanged, and comment
\* markers and task items are rewritten only in the text blocks.
C15_CodeBlocksUntouched ==
  (prePc # "idle" /\ ~IsDiagramFile) => preHtml = ExpectedHtml(preIn)

-----------------------------------------------------------------------------
(* Properties of the diagram block *)

\* the block shows the outcome of its newest request, which was made for
\* its current code
ShowsCurrent ==
  /\ Len(blkRenders) > 0
  /\ LET n == Len(blkRenders)
          out == RenderOutcome(n)
     IN /\ blkRenders[n].code = blkCode
        /\ ~blkRenders[n].cancelled
        /\ IF out.ok
           THEN blkSvg = sanitizeSvg(out.value) /\ blkError = NullV
           ELSE blkError = out.value /\ blkSvg = <<>>

\* C16: a diagram block that is being edited has no render pending; a block
\* that is not being edited has a render of its current code pending, or
\* shows that render's outcome: its sanitized SVG and no error, or its
\* error and no SVG.
C16_BlockStateMachine ==
  blkMounted =>
    /\ blkEditing => LiveRenders = {}
    /\ ~blkEditing =>
         /\ \A i \in LiveRenders : blkRenders[i].code = blkCode
         /\ LiveRenders = {} => ShowsCurrent

\* what the block shows once a request has settled with out
DisplayOf(out) ==
  IF out.ok THEN [svg |-> sanitizeSvg(out.value), error |-> NullV]
  ELSE [svg |-> <<>>, error |-> out.value]

\* C27: a block that is not being edited and has no render pending shows, if
\* it shows a drawing or an error at all, the outcome of a render of its
\* current code, never the outcome of a render of a code it had before.
C27_NoStaleResult ==
  (blkMounted /\ ~blkEditing /\ LiveRenders = {}
     /\ (blkSvg # <<>> \/ blkError # NullV)) =>
    \E i \in 1..Len(blkRenders) :
      /\ blkRenders[i].code = blkCode
      /\ [svg |-> blkSvg, error |-> blkError] = DisplayOf(RenderOutcome(i))

-----------------------------------------------------------------------------
(* Properties of the recency cache *)

\* C17: the recency cache holds at most MAX_RECENT entries, no two with the
\* same id; the person added last is at index 0; the entries are in the
\* order of their most recent addition, most recent first.
C17_RecencyCache ==
  /\ Len(recentPeople) <= MAX_RECENT
  /\ \A i, j \in 1..Len(recentPeople) :
       i # j => recentPeople[i].id # recentPeople[j].id
  /\ mruClock > 0 =>
       /\ Len(recentPeople) > 0
       /\ mruAddedAt[recentPeople[1].id] = mruClock
  /\ \A i, j \in 1..Len(recentPeople) :
       i < j => mruAddedAt[recentPeople[i].id] > mruAddedAt[recentPeople[j].id]

\* the cache is full, a person was dropped from its end and a person it
\* held was added again
C17_FullCacheReAdded ==
  /\ Len(recentPeople) = MAX_RECENT
  /\ mruReAdds > 0
  /\ \E id \in PersonIds : mruAddedAt[id] > 0 /\ id \notin CachedIds(recentPeople)

-----------------------------------------------------------------------------
(* Properties of the mention input *)

C19_StaleLookupDiscarded ==
  [][/\ (menLast'.kind = "picked" /\ picker.value # menValue)
        => menValue' = menValue
     /\ (menLast'.kind = "found" /\ dirResults' # [query |-> searchQuery])
        => dirResults' = dirResults
    ]_vars

-----------------------------------------------------------------------------
(* Properties of the dropdown of the mention input *)

\* the candidates the cache and the document give for the query now
KnownCandidates ==
  dedup(mruHits(LowerCase(searchQuery)) \o docPeople(LowerCase(searchQuery)))

\* C21: while a mention is active, the candidate list is the matching
\* entries of the recency cache followed by the matching document
\* participants, no id twice, and the ad-hoc entry for the typed text comes
\* after them exactly when the query is not empty and no listed candidate
\* has the query as its name, letter case aside.
C21_CandidateList ==
  mentionActive =>
    /\ results = KnownCandidates
    /\ selectableItems =
         IF Len(searchQuery) > 0
            /\ \A i \in 1..Len(KnownCandidates) :
                 LowerCase(KnownCandidates[i].name) # LowerCase(searchQuery)
         THEN Append(KnownCandidates, adHocPerson)
         ELSE KnownCandidates

\* the rows of the dropdown below the highlighted row wrap round to the
\* first, the rows above it to the last
RowAfter(i, n) == IF i = n THEN 0 ELSE i + 1
RowBefore(i, n) == IF i = 0 THEN n ELSE i - 1

\* C25: while the dropdown is open with N selectable persons the highlighted
\* index is in 0..N; ArrowDown moves from N to 0 and otherwise one down,
\* ArrowUp moves from 0 to N and otherwise one up, and the index is 0 after
\* every step that recomputes the candidate list.
C25_HighlightWraps ==
  /\ [](mentionActive => selectedIndex \in 0..Len(selectableItems))
  /\ [][/\ handleKeyDown("ArrowDown") =>
            selectedIndex' = RowAfter(selectedIndex, Len(selectableItems))
        /\ handleKeyDown("ArrowUp") =>
            selectedIndex' = RowBefore(selectedIndex, Len(selectableItems))
        /\ (mentionActive' /\ <<mentionActive, searchQuery>>
                                # <<mentionActive', searchQuery'>>) =>
            selectedIndex' = 0]_vars

\* the last row is highlighted in a dropdown that lists two people and the
\* ad-hoc entry
C25_LastRowOfThree ==
  /\ mentionActive
  /\ Len(results) = 2 /\ adHocVisible
  /\ selectedIndex = 3

-----------------------------------------------------------------------------
(* Properties of add-comment *)

\* C22: add-comment with an empty selection creates a comment anchored to
\* the word at the cursor, with that word as its quotedText, whatever was
\* selected or edited before; with the cursor in no word it creates no
\* comment and no anchor.
C22_WordAtCursor ==
  [][(handleAddComment /\ selection.from = selection.to) =>
       IF WordAt(selection.from) = NoSelection
       THEN anchored' = anchored
       ELSE anchored' = Append(anchored,
              [quotedText |-> WordAt(selection.from).text,
               from |-> WordAt(selection.from).from,
               to |-> WordAt(selection.from).to])]_vars

-----------------------------------------------------------------------------
(* Properties of threads and tasks *)

ResolveConsistent(c) ==
  c.resolved <=> (c.resolvedBy # NullV /\ c.resolvedAt # NullV)

OthersUnchanged(id) ==
  /\ DOMAIN storeComments' = DOMAIN storeComments
  /\ \A k \in DOMAIN storeComments \ {id} : storeComments'[k] = storeComments[k]

\* C20: resolve(id) of an existing comment sets resolved, resolvedBy (the
\* current user or the anonymous author) and resolvedAt (now); unresolve(id)
\* clears the three; neither changes another comment; after every store
\* operation each comment is resolved exactly when resolvedBy and
\* resolvedAt are both set.
C20_ResolveFields ==
  [][/\ (storeLast'.kind = "resolve" /\ storeLast'.id \in DOMAIN storeComments)
        => LET c == storeComments'[storeLast'.id] IN
           /\ c.resolved
           /\ c.resolvedBy = (IF currentUser = NullV THEN AuthorOf("anonymous")
                              ELSE currentUser)
           /\ c.resolvedAt = DateOf(storeLast'.now)
           /\ OthersUnchanged(storeLast'.id)
     /\ (storeLast'.kind = "unresolve" /\ storeLast'.id \in DOMAIN storeComments)
        => LET c == storeComments'[storeLast'.id] IN
           /\ ~c.resolved
           /\ c.resolvedBy = NullV
           /\ c.resolvedAt = NullV
           /\ OthersUnchanged(storeLast'.id)
     /\ \A id \in DOMAIN storeComments' : ResolveConsistent(storeComments'[id])
    ]_vars

\* a comment was resolved by a signed-in user while another comment, with a
\* reply and a completed task, is resolved by the anonymous author
C20_ResolvedBesideAnother ==
  /\ storeLast.kind = "resolve"
  /\ storeLast.id \in DOMAIN storeComments
  /\ storeComments[storeLast.id].resolvedBy \in Users
  /\ \E k \in DOMAIN storeComments \ {storeLast.id} :
       /\ storeComments[k].resolvedBy = defaultAuthor
       /\ Len(storeComments[k].replies) > 0
       /\ storeComments[k].taskCompleted

\* the field objects the eight operations hand to the store for comment id
CallFields(id) ==
  Updates
  \cup {ResolveFields, UnresolveFields, AssignFields(AuthorOf("u2")),
        CompleteFields, UncompleteFields}
  \cup {AddReplyFields(id, replyId) : replyId \in StampReplyIds}
  \cup {DeleteReplyFields(id, replyId) : replyId \in StampReplyIds}

\* what a store operation on id at time now has to leave behind
StampedAlone(id, now, after) ==
  IF id \in DOMAIN stampComments
  THEN /\ DOMAIN after = DOMAIN stampComments
       /\ after[id].updatedAt = DateOf(now)
       /\ \A k \in DOMAIN stampComments \ {id} : after[k] = stampComments[k]
  ELSE after = stampComments

\* C26: update, resolve, unresolve, addReply, deleteReply, assignTask,
\* completeTask and uncompleteTask on an existing comment set its updatedAt to
\* the time of the call and change no other comment; on an id the store does
\* not hold they leave the store as it is, and addReply returns null.  Stated
\* of every store the operations reach: whichever of the eight is called
\* next, with whatever id and time, the store it leaves is as claimed.
C26_UpdatedAtStamped ==
  \A id \in IdPool, now \in Times :
    /\ \A fields \in CallFields(id) :
         StampedAlone(id, now, AfterStamp(id, fields, now))
    /\ id \notin DOMAIN stampComments =>
         \A replyId \in StampReplyIds : addReplyReturn(id, replyId) = NullV

\* C26 witness: of two comments one was changed by a later operation, the
\* other keeps the stamp of its creation
C26_OneOfTwoStamped ==
  \E a, b \in DOMAIN stampComments :
    /\ a # b
    /\ stampComments[a].taskCompleted /\ stampComments[a].updatedAt = DateOf(MaxTime)
    /\ stampComments[b].updatedAt = DateOf(1) /\ stampComments[b].text = ""

-----------------------------------------------------------------------------
(* Properties of the anchor marks *)

\* C28: after a file open, a raw-markdown edit handed to the rich editor, a
\* resolve or an unresolve, the resolved attribute of the marks of every
\* comment id equals the resolved flag of the comment with that id.
C28_MarksFollowStore ==
  markLast \in {"open", "edit", "resolve", "unresolve"} =>
    \A id \in DOMAIN markAttrs \cap DOMAIN markComments :
      markAttrs[id] = markComments[id]

-----------------------------------------------------------------------------
(* Properties of isDirty *)

\* C29: whenever isDirty is false and a file is open, the text last written
\* to or read from the file is the current body with the current comments
\* embedded, whatever the order of edits, store operations and the
\* completion of a save.
C29_CleanMeansSaved ==
  (svFile # NoFile /\ ~svDirty) =>
    svFile = embedCommentsInMarkdown(svMarkdown, svComments)

-----------------------------------------------------------------------------
(* Properties of the converter *)

-----------------------------------------------------------------------------
(* Properties of the editor and the comment store *)

\* C2: in every reachable state the set of comment ids carried by anchor
\* marks of the document equals the set of keys of the comment store.
C2_AnchorsMatchStore == AnchorIds(doc) = DOMAIN comments

\* what holds after the sidebar deleted the comment id from the state
\* before: no store entry, no anchor, no marker in the markdown body, and
\* every other comment and anchor as before
DeletedEverywhere(id) ==
  /\ id \notin DOMAIN comments'
  /\ id \notin AnchorIds(doc')
  /\ id \notin MarkerIds(markdown')
  /\ \A k \in (DOMAIN comments) \ {id} :
       k \in DOMAIN comments' /\ comments'[k] = comments[k]
  /\ Len(doc') = Len(doc)
  /\ \A i \in 1..Len(doc) : doc[i].cid # id => doc'[i] = doc[i]

\* C4: after the comment X is deleted from the sidebar the store has no
\* entry for X, the document no anchor carrying X, the synchronized markdown
\* body no marker for X, and all other comments and anchors are unchanged.
C4_DeleteRemovesEverywhere ==
  [][\A id \in IdPool : DeleteComment(id) => DeletedEverywhere(id)]_vars

-----------------------------------------------------------------------------
(* Properties of the edit propagation *)

\* C5: isUpdatingRef is false whenever no change handler is executing, also
\* after a handler run in which the update of the receiving editor threw.
C5_FlagReleased == isUpdatingRef = FALSE

UserEdits == {"wysiwyg", "markdown"}

PropagationOf(kind) ==
  IF kind = "wysiwyg" THEN "wysiwygToMarkdown" ELSE "markdownToWysiwyg"

\* C6: a user edit that is propagated runs exactly one propagation body,
\* that of its own direction; the programmatic update of the receiving
\* editor never runs the opposite direction, and when nothing was raised
\* both guard flags are released again.
C6_NoPingPong ==
  lastOp.kind \in UserEdits =>
    /\ Len(lastOp.bodies) <= 1
    /\ ~lastOp.blocked => lastOp.bodies = <<PropagationOf(lastOp.kind)>>
    /\ (~lastOp.blocked /\ ~lastOp.threw) =>
         (~isUpdatingRef /\ ~mdIsUpdatingRef)

\* C6 witness: a rich-editor edit was propagated, the raw editor took the
\* new text by a dispatch that called its update listener
C6_Propagated ==
  /\ lastOp.kind = "wysiwyg"
  /\ lastOp.bodies = <<"wysiwygToMarkdown">>
  /\ ~lastOp.threw
  /\ mdText = markdown
  /\ Len(mdText) > 0

-----------------------------------------------------------------------------
(* Properties of the sanitizer *)

RECURSIVE Clean(_)
\* no element of the deny-list, no attribute whose name starts with on, no
\* javascript: or data: URI in href / xlink:href, anywhere in the markup
Clean(nodes) ==
  \A i \in 1..Len(nodes) :
    /\ nodes[i].tag \notin DANGEROUS_ELEMENTS
    /\ \A a \in nodes[i].attrs :
         /\ ~StartsWithOn(a[1])
         /\ ~(a[1] \in HrefNames /\ UnsafeUri(a[2]))
    /\ Clean(nodes[i].kids)

\* C9: the result of sanitizeSvg, whether or not an <svg> root is found in
\* the engine output, contains no deny-list element, no on* attribute and
\* no javascript: or data: URI in a reference attribute.
C9_SanitizedIsClean == sanPc = "done" => Clean(sanOut)

-----------------------------------------------------------------------------
(* Properties of the render queue *)

\* C7: at most one engine call is in progress at any time, and engine calls
\* start in the order in which queueMermaidRender was called.
C7_OneRenderInOrder ==
  /\ Cardinality(InProgress) <= 1
  /\ \A k \in 1..Len(started) : started[k] = k

\* C7 witness: an engine call is in progress after an earlier call failed,
\* while a later request waits in the queue
C7_QueuedBehindRunning ==
  \E h, i, j \in 1..Len(requests) :
    /\ h < i /\ i < j
    /\ requests[h].state = "settled"
    /\ ~requests[h].outcome.ok
    /\ requests[i].state = "running"
    /\ requests[j].state = "queued"

\* C8: each promise settles with the outcome of the engine call made with
\* its own code under its own id, render ids are distinct, and a block
\* shows only output produced from the source of its own request.
C8_OwnOutcome ==
  /\ \A i \in 1..Len(requests) :
       requests[i].state = "settled" =>
         requests[i].outcome = EngineOutput(requests[i].id, requests[i].code)
  /\ \A i, j \in 1..Len(requests) :
       (i # j /\ requests[i].id # NullV) => requests[i].id # requests[j].id
  /\ \A b \in Blocks :
       view[b].req # 0 =>
         LET r == requests[view[b].req]
             out == EngineOutput(r.id, r.code)
         IN /\ r.block = b
            /\ out.ok => (view[b].svg = sanitizeSvg(out.value) /\ view[b].error = NullV)
            /\ ~out.ok => (view[b].svg = <<>> /\ view[b].error = out.value)

\* C8 witness: two blocks with different sources, the second requested while
\* the first was pending, both show a drawing
C8_BothShown ==
  /\ view["b1"].req # 0 /\ view["b2"].req # 0
  /\ view["b1"].svg # <<>> /\ view["b2"].svg # <<>>
  /\ requests[view["b1"].req].code # requests[view["b2"].req].code
  /\ requests[view["b1"].req].waited \/ requests[view["b2"].req].waited

\* C24: with every engine call returning or throwing, every request passed
\* to queueMermaidRender is settled in the end, the requests queued behind a
\* request whose render throws included.
C24_EveryRequestSettles ==
  \A i \in 1..MaxRequests :
    (Len(requests) >= i) ~> (Len(requests) >= i /\ requests[i].state = "settled")

\* C24 witness: a request that waited in the queue behind a request whose
\* render threw has been settled
C24_SettledBehindFailure ==
  \E h, i \in 1..Len(requests) :
    /\ h < i
    /\ requests[h].state = "settled" /\ ~requests[h].outcome.ok
    /\ requests[i].waited /\ requests[i].after = h
    /\ requests[i].state = "settled"

====
